---- MODULE Spec2Model ----
(***************************************************************************)
(* Model of the chess rules engine of mathisdelsart/Chess                  *)
(* (src/src/piece.py, src/src/game_state.py) and of the part of the game   *)
(* loop (src/src/game.py) that feeds it.                                   *)
(*                                                                         *)
(* A game state S is a record                                              *)
(*   board    : [0..7 -> [0..7 -> piece id or None]]   GameState.board     *)
(*   obj      : [1..n -> piece object]                  the Piece objects  *)
(*   registry : [{1,-1} -> Seq(piece id)]               GameState._pieces  *)
(*   filtered : Seq(piece id)   the pieces the legality filter has gone    *)
(*              through since update_available_moves was entered (a        *)
(*              history of its calls; the program keeps no such field)     *)
(* Piece objects are identified by their creation order in                 *)
(* setup_initial_position's registries (black 1..16, white 17..32);        *)
(* queens created by promotion get the next free identifier.               *)
(* Rows and columns are the code's: row 0 is Black's back rank, row 7 is   *)
(* White's, colour 1 is White and -1 is Black.  Tiles are <<row, col>>.    *)
(***************************************************************************)
EXTENDS Integers, Sequences, FiniteSets, TLC

None == 0

WHITE == 1
BLACK == -1

\* ---------------------------------------------------------------- helpers

\* Python's `x in list`
Contains(s, x) == \E i \in 1..Len(s) : s[i] = x

\* Python's [m for m in moves if m not in moves_to_remove]
Without(moves, moves_to_remove) ==
    SelectSeq(moves, LAMBDA m : ~Contains(moves_to_remove, m))

\* list.remove(x) of a list without duplicates
RemoveFirst(s, x) == SelectSeq(s, LAMBDA y : y # x)

InBounds(r, c) == 0 <= r /\ r <= 7 /\ 0 <= c /\ c <= 7

Abs(x) == IF x < 0 THEN -x ELSE x

At(S, t) == S.board[t[1]][t[2]]

SetAt(S, t, p) == [S EXCEPT !.board[t[1]][t[2]] = p]

\* ------------------------------------------------- direction constants

ROOK_DIRECTIONS == << <<-1, 0>>, <<1, 0>>, <<0, -1>>, <<0, 1>> >>

BISHOP_DIRECTIONS == << <<-1, -1>>, <<-1, 1>>, <<1, -1>>, <<1, 1>> >>

\* a queen that moves as a rook only: with it the queen of the fool's mate
\* scenario C16 cannot reach (4,7)
QueenAsRook == ROOK_DIRECTIONS

QUEEN_DIRECTIONS == ROOK_DIRECTIONS \o BISHOP_DIRECTIONS

KNIGHT_OFFSETS == << <<-2, -1>>, <<-2, 1>>, <<-1, -2>>, <<-1, 2>>,
                     <<1, -2>>, <<1, 2>>, <<2, -1>>, <<2, 1>> >>

\* the order in which get_king_moves' two nested range(-1, 2) loops
\* visit the eight neighbours
KING_OFFSETS == << <<-1, -1>>, <<-1, 0>>, <<-1, 1>>, <<0, -1>>,
                   <<0, 1>>, <<1, -1>>, <<1, 0>>, <<1, 1>> >>

\* ---------------------------------------------------- movement functions

\* the least element of a non-empty set of integers
Min(B) == CHOOSE d \in B : \A e \in B : d <= e

\* a sequence given as a function, with all its elements computed
Seq1(f) == f \o <<>>

\* the first index of x in the list s
IndexOf(s, x) == CHOOSE i \in 1..Len(s) : s[i] = x

\* the concatenation of a list of at most eight lists
Concat(lists) ==
    LET Part(i) == IF i <= Len(lists) THEN lists[i] ELSE <<>>
    IN Part(1) \o Part(2) \o Part(3) \o Part(4) \o Part(5) \o Part(6) \o Part(7) \o Part(8)

\* how many steps of direction dir (-1, 0 or 1) stay within 0..7 from x
Reach(x, dir) == IF dir = -1 THEN x ELSE IF dir = 1 THEN 7 - x ELSE 7

\* a destination of a knight or of a basic king move, and the last tile of
\* a linear walk: in bounds and not occupied by a piece of the mover's colour
FreeOrEnemy(S, t, color) ==
    /\ InBounds(t[1], t[2])
    /\ \/ At(S, t) = None
       \/ S.obj[At(S, t)].color = -color

\* a walk that does not stop at occupied tiles: with it the sliding
\* geometry C32 must fail
LinearRayThrough(S, row, col, row_dir, col_dir, color) ==
    LET kept == SelectSeq(
            Seq1([distance \in 1..Min({Reach(row, row_dir), Reach(col, col_dir)}) |->
                     distance]),
            LAMBDA distance :
                FreeOrEnemy(S, <<row + row_dir * distance, col + col_dir * distance>>,
                            color))
    IN Seq1([i \in 1..Len(kept) |->
                <<row + row_dir * kept[i], col + col_dir * kept[i]>>])

\* one direction of get_linear_moves, the inner `for distance in range(1, 8)`:
\* the walk breaks at the first distance that is out of bounds or occupied,
\* and an occupied tile is kept when its piece is of the other colour.  So a
\* distance is kept when it is in bounds, every nearer tile is empty and its
\* own tile is empty or holds a piece of the other colour.
LinearRay(S, row, col, row_dir, col_dir, color) ==
    LET kept == SelectSeq(
            Seq1([distance \in 1..Min({Reach(row, row_dir), Reach(col, col_dir)}) |->
                     distance]),
            LAMBDA distance :
                /\ \A nearer \in 1..(distance - 1) :
                       S.board[row + row_dir * nearer][col + col_dir * nearer] = None
                /\ FreeOrEnemy(S, <<row + row_dir * distance, col + col_dir * distance>>,
                               color))
    IN Seq1([i \in 1..Len(kept) |->
                <<row + row_dir * kept[i], col + col_dir * kept[i]>>])

\* the outer `for row_dir, col_dir in directions` (four or eight directions)
get_linear_moves(S, position, color, directions) ==
    Concat([i \in 1..Len(directions) |->
               LinearRay(S, position[1], position[2],
                         directions[i][1], directions[i][2], color)])

get_knight_moves(S, position, color) ==
    SelectSeq([i \in 1..8 |-> <<position[1] + KNIGHT_OFFSETS[i][1],
                                position[2] + KNIGHT_OFFSETS[i][2]>>],
              LAMBDA t : FreeOrEnemy(S, t, color))

get_king_moves(S, position, color) ==
    SelectSeq([i \in 1..8 |-> <<position[1] + KING_OFFSETS[i][1],
                                position[2] + KING_OFFSETS[i][2]>>],
              LAMBDA t : FreeOrEnemy(S, t, color))

\* ------------------------------------------------------------ piece model

\* King.rook_left / King.rook_right: the rook objects created on columns 0
\* and 7 of the king's home row, never reassigned
rook_left(color) == IF color = WHITE THEN 25 ELSE 1

rook_right(color) == IF color = WHITE THEN 32 ELSE 8

\* GameState._kings, set once by setup_initial_position
get_king(color) == IF color = WHITE THEN 29 ELSE 5

get_pieces_by_color(S, color) == S.registry[color]

\* Pawn._check_en_passant, one col_offset of its loop: the tile it appends
en_passant_side(S, p, new_col) ==
    IF /\ 0 <= new_col /\ new_col <= 7
       /\ S.board[S.obj[p].tile[1]][new_col] # None
       /\ S.obj[S.board[S.obj[p].tile[1]][new_col]].kind = "Pawn"
       /\ S.obj[S.board[S.obj[p].tile[1]][new_col]].just_moved
    THEN << <<S.obj[p].tile[1] - S.obj[p].color, new_col>> >>
    ELSE <<>>

\* Pawn._check_en_passant: column offset -1, then 1
check_en_passant(S, p) ==
    en_passant_side(S, p, S.obj[p].tile[2] - 1) \o en_passant_side(S, p, S.obj[p].tile[2] + 1)

\* forward moves in which the double advance does not need the tile in
\* between to be empty: with it the push geometry C33 must fail
pawn_forward_jump(S, p, row, col, direction) ==
    (IF 0 <= row + direction /\ row + direction <= 7 /\ S.board[row + direction][col] = None
     THEN << <<row + direction, col>> >>
     ELSE <<>>)
    \o (IF /\ S.obj[p].first_move
           /\ 0 <= row + 2 * direction /\ row + 2 * direction <= 7
           /\ S.board[row + 2 * direction][col] = None
        THEN << <<row + 2 * direction, col>> >>
        ELSE <<>>)

\* Pawn.update_possible_moves, lines 467-477: the forward moves
pawn_forward(S, p, row, col, direction) ==
    IF 0 <= row + direction /\ row + direction <= 7 /\ S.board[row + direction][col] = None
    THEN << <<row + direction, col>> >>
         \o (IF /\ S.obj[p].first_move
                /\ 0 <= row + 2 * direction /\ row + 2 * direction <= 7
                /\ S.board[row + 2 * direction][col] = None
             THEN << <<row + 2 * direction, col>> >>
             ELSE <<>>)
    ELSE <<>>

\* Pawn.update_possible_moves, lines 479-485: one diagonal capture
pawn_diagonal(S, color, new_row, new_col) ==
    IF /\ 0 <= new_col /\ new_col <= 7
       /\ 0 <= new_row /\ new_row <= 7
       /\ S.board[new_row][new_col] # None
       /\ S.obj[S.board[new_row][new_col]].color = -color
    THEN << <<new_row, new_col>> >>
    ELSE <<>>

\* Pawn.update_possible_moves: the list it builds
PawnMoves(S, p) ==
    pawn_forward(S, p, S.obj[p].tile[1], S.obj[p].tile[2], -S.obj[p].color)
    \o pawn_diagonal(S, S.obj[p].color, S.obj[p].tile[1] - S.obj[p].color, S.obj[p].tile[2] - 1)
    \o pawn_diagonal(S, S.obj[p].color, S.obj[p].tile[1] - S.obj[p].color, S.obj[p].tile[2] + 1)
    \o check_en_passant(S, p)

\* a faulty King._tiles_empty that never looks at the board; the castling
\* preconditions of C9 must fail with it
tiles_empty_ignored(S, tiles) == TRUE

\* King._tiles_empty
tiles_empty(S, tiles) == \A i \in 1..Len(tiles) : At(S, tiles[i]) = None

\* King._tiles_not_attacked: reads the available_moves the opponent's
\* registered pieces currently cache; the king's home tile is always added
tiles_not_attacked(S, color, tiles) ==
    \A i \in 1..Len(get_pieces_by_color(S, -color)) :
       /\ \A j \in 1..Len(tiles) :
             ~Contains(S.obj[get_pieces_by_color(S, -color)[i]].available_moves, tiles[j])
       /\ ~Contains(S.obj[get_pieces_by_color(S, -color)[i]].available_moves,
                    IF color = WHITE THEN <<7, 4>> ELSE <<0, 4>>)

\* King._check_castling on the king's home row: the tiles it appends,
\* kingside then queenside
castling_on_row(S, k, color, row) ==
    IF ~S.obj[k].first_move THEN <<>>
    ELSE (IF /\ S.obj[rook_right(color)].first_move
             /\ tiles_empty(S, << <<row, 5>>, <<row, 6>> >>)
             /\ tiles_not_attacked(S, color, << <<row, 5>>, <<row, 6>> >>)
          THEN << <<row, 6>> >> ELSE <<>>)
         \o
         (IF /\ S.obj[rook_left(color)].first_move
             /\ tiles_empty(S, << <<row, 1>>, <<row, 2>>, <<row, 3>> >>)
             /\ tiles_not_attacked(S, color, << <<row, 2>>, <<row, 3>> >>)
          THEN << <<row, 2>> >> ELSE <<>>)

\* King._check_castling
check_castling(S, k) ==
    castling_on_row(S, k, S.obj[k].color, IF S.obj[k].color = WHITE THEN 7 ELSE 0)

\* King.update_possible_moves: the list it builds
KingMoves(S, k) ==
    get_king_moves(S, S.obj[k].tile, S.obj[k].color) \o check_castling(S, k)

\* the directions of a Rook, a Bishop or a Queen
Directions(kind) ==
    CASE kind = "Rook"   -> ROOK_DIRECTIONS
      [] kind = "Bishop" -> BISHOP_DIRECTIONS
      [] kind = "Queen"  -> QUEEN_DIRECTIONS

\* the list <kind>.update_possible_moves assigns to available_moves
PossibleMoves(S, p) ==
    CASE S.obj[p].kind = "Pawn"   -> PawnMoves(S, p)
      [] S.obj[p].kind = "King"   -> KingMoves(S, p)
      [] S.obj[p].kind = "Knight" -> get_knight_moves(S, S.obj[p].tile, S.obj[p].color)
      [] OTHER -> get_linear_moves(S, S.obj[p].tile, S.obj[p].color,
                                   Directions(S.obj[p].kind))

update_possible_moves(S, p) ==
    [S EXCEPT !.obj[p].available_moves = PossibleMoves(S, p)]

\* GameState.add_piece / GameState.remove_piece
\* add_piece without the membership test: with it a second add duplicates
\* the piece and C20 must fail
add_piece_unguarded(S, p) ==
    IF p # None
    THEN [S EXCEPT !.registry[S.obj[p].color] = Append(@, p)]
    ELSE S

add_piece(S, p) ==
    IF p # None /\ ~Contains(S.registry[S.obj[p].color], p)
    THEN [S EXCEPT !.registry[S.obj[p].color] = Append(@, p)]
    ELSE S

remove_piece(S, p) ==
    IF p # None /\ Contains(S.registry[S.obj[p].color], p)
    THEN [S EXCEPT !.registry[S.obj[p].color] = RemoveFirst(@, p)]
    ELSE S

\* ------------------------------------------- check / checkmate detection

\* the moves update_possible_moves would give each piece of the list
\* `pieces` in state S, indexed by piece.  The pieces of one colour never
\* read each other's available_moves, so the order of a loop that updates
\* them does not matter.
MovesOf(S, pieces) ==
    Seq1([p \in 1..Len(S.obj) |->
             IF Contains(pieces, p) THEN PossibleMoves(S, p) ELSE <<>>])

\* S after piece.update_possible_moves() for the first n pieces of the list
UpdateFirst(S, pieces, n, moves) ==
    [S EXCEPT !.obj = Seq1([p \in 1..Len(S.obj) |->
                  IF \E i \in 1..n : pieces[i] = p
                  THEN [S.obj[p] EXCEPT !.available_moves = moves[p]]
                  ELSE S.obj[p]])]

\* the positions in `pieces` of the pieces whose moves contain the tile
Reaching(pieces, moves, tile) ==
    {i \in 1..Len(pieces) : Contains(moves[pieces[i]], tile)}

\* the walk shared by king_in_chess and get_piece_that_check, given the
\* moves each piece gets: the pieces are updated in registry order up to
\* and including the first one whose moves contain the king's tile (`at`
\* is 0 when there is none)
WalkTo(S, pieces, moves, reaching) ==
    IF reaching = {}
    THEN [st |-> UpdateFirst(S, pieces, Len(pieces), moves), at |-> 0, piece |-> None]
    ELSE [st |-> UpdateFirst(S, pieces, Min(reaching), moves), at |-> Min(reaching),
          piece |-> pieces[Min(reaching)]]

FirstReachingWith(S, king, pieces, moves) ==
    WalkTo(S, pieces, moves, Reaching(pieces, moves, S.obj[king].tile))

FirstReaching(S, king, pieces) ==
    FirstReachingWith(S, king, pieces, MovesOf(S, pieces))

\* the result of king_in_chess: the state with the recomputed
\* available_moves, and the verdict
InChess(walk) == [st |-> walk.st, res |-> walk.at # 0]

\* Piece.king_in_chess
king_in_chess(S, king) ==
    InChess(FirstReaching(S, king, get_pieces_by_color(S, -S.obj[king].color)))

\* the result of get_piece_that_check: the state and the piece, or None
Checker(walk) == [st |-> walk.st, res |-> walk.piece]

\* Piece.get_piece_that_check
get_piece_that_check(S, moved_piece_color) ==
    Checker(FirstReaching(S, get_king(-moved_piece_color),
                          get_pieces_by_color(S, moved_piece_color)))

\* Piece.player_cant_move
player_cant_move(S, piece_color) ==
    \A i \in 1..Len(S.registry[piece_color]) :
        S.obj[S.registry[piece_color][i]].available_moves = <<>>

\* ------------------------------------------------------- legality filter

\* removes_moves_that_doesnt_protect_king, lines 328-339.  S has the
\* checker off the board.  Each move other than check_tile is tried by
\* writing opponent_piece on the move's tile (its own tile keeps it too)
\* and recomputing the checker's moves; the tile is restored afterwards,
\* so the tries are independent.  `tries` holds the checker's recomputed
\* moves for each tried move.
ProtectTries(S, opponent_piece, piece_that_check, tried) ==
    Seq1([k \in 1..Len(tried) |->
             PossibleMoves(SetAt(S, tried[k], opponent_piece), piece_that_check)])

\* the state after the loop: the checker keeps the moves of the last try,
\* opponent_piece is written back on its tile (line 341) and loses the
\* tried moves after which the checker still reaches the king (line 342)
ProtectResult(S, opponent_piece, piece_that_check, opponent_king, tried, tries) ==
    [SetAt(S, S.obj[opponent_piece].tile, opponent_piece) EXCEPT
        !.obj = [@ EXCEPT
            ![piece_that_check].available_moves =
                IF tried = <<>> THEN @ ELSE tries[Len(tried)],
            ![opponent_piece].available_moves =
                SelectSeq(@, LAMBDA move :
                    ~ /\ Contains(tried, move)
                      /\ Contains(tries[IndexOf(tried, move)], S.obj[opponent_king].tile))]]

ProtectLoop(S, opponent_piece, piece_that_check, opponent_king, tried) ==
    ProtectResult(S, opponent_piece, piece_that_check, opponent_king, tried,
                  ProtectTries(S, opponent_piece, piece_that_check, tried))

\* the filter without the double-check branch of lines 324-326: with it
\* C22 must fail
ProtectAfterNoDouble(kic, opponent_piece, piece_that_check, opponent_king, check_tile) ==
    ProtectLoop(kic.st, opponent_piece, piece_that_check, opponent_king,
                SelectSeq(kic.st.obj[opponent_piece].available_moves,
                          LAMBDA move : move # check_tile))

\* lines 324-342, given king_in_chess's result with the checker removed
ProtectAfter(kic, opponent_piece, piece_that_check, opponent_king, check_tile) ==
    IF kic.res
    THEN [kic.st EXCEPT !.obj[opponent_piece].available_moves = <<>>]
    ELSE ProtectLoop(kic.st, opponent_piece, piece_that_check, opponent_king,
                     SelectSeq(kic.st.obj[opponent_piece].available_moves,
                               LAMBDA move : move # check_tile))

\* removes_moves_that_doesnt_protect_king, with the checker on check_tile:
\* it is removed (lines 320-322), and restored at the end (lines 345-346)
ProtectWithout(S, opponent_piece, piece_that_check, opponent_king, check_tile) ==
    add_piece(SetAt(ProtectAfter(king_in_chess(remove_piece(SetAt(S, check_tile, None),
                                                            piece_that_check),
                                               opponent_king),
                                 opponent_piece, piece_that_check, opponent_king,
                                 check_tile),
                    check_tile, piece_that_check),
              piece_that_check)

removes_moves_that_doesnt_protect_king(S, moved_piece_color, opponent_piece, piece_that_check) ==
    ProtectWithout([S EXCEPT !.filtered = Append(@, opponent_piece)],
                   opponent_piece, piece_that_check, get_king(-moved_piece_color),
                   S.obj[piece_that_check].tile)

\* remove_moves_that_puts_king_in_chess, lines 354-378, for one
\* opponent_piece.  Every piece of the side that just moved is updated; one
\* that reaches opponent_piece's tile is then recomputed for each move of
\* opponent_piece, with opponent_piece lifted off its tile and written on
\* the move's tile, and the move is removed when the recomputed moves
\* contain the king's tile.  The board is restored after each try, so the
\* tries are independent and each such piece keeps the moves of its last
\* try.  `tries[i][k]` holds the recomputed moves of the i-th piece for the
\* k-th move.
PinTries(S, pieces, opponent_piece, reaching) ==
    Seq1([i \in 1..Len(pieces) |->
        IF i \in reaching
        THEN Seq1([k \in 1..Len(S.obj[opponent_piece].available_moves) |->
                 PossibleMoves(SetAt(SetAt(S, S.obj[opponent_piece].tile, None),
                                     S.obj[opponent_piece].available_moves[k],
                                     opponent_piece),
                               pieces[i])])
        ELSE <<>>])

PinResult(S, pieces, opponent_piece, opponent_king, updated, reaching, tries) ==
    [S EXCEPT !.filtered = Append(@, opponent_piece),
              !.obj = Seq1([p \in 1..Len(S.obj) |->
        IF p = opponent_piece
        THEN [S.obj[p] EXCEPT !.available_moves =
                 SelectSeq(@, LAMBDA move :
                     \A i \in reaching :
                        ~Contains(tries[i][IndexOf(S.obj[p].available_moves, move)],
                                  S.obj[opponent_king].tile))]
        ELSE IF \E i \in reaching : pieces[i] = p
        THEN [S.obj[p] EXCEPT !.available_moves =
                 IF S.obj[opponent_piece].available_moves = <<>>
                 THEN updated[p]
                 ELSE tries[IndexOf(pieces, p)][Len(S.obj[opponent_piece].available_moves)]]
        ELSE IF Contains(pieces, p)
        THEN [S.obj[p] EXCEPT !.available_moves = updated[p]]
        ELSE S.obj[p]])]

PinReaching(S, pieces, opponent_piece, opponent_king, updated, reaching) ==
    PinResult(S, pieces, opponent_piece, opponent_king, updated, reaching,
              PinTries(S, pieces, opponent_piece, reaching))

PinUpdated(S, pieces, opponent_piece, opponent_king, updated) ==
    PinReaching(S, pieces, opponent_piece, opponent_king, updated,
                Reaching(pieces, updated, S.obj[opponent_piece].tile))

\* on_board holds the moves of the pieces of the side that just moved on
\* the restored board: only a king's moves (its castling) read anything
\* but the board and the pieces' tiles and flags, so only the king's are
\* computed again for each opponent_piece.
FilterPinned(S, moved_piece_color, opponent_piece, on_board) ==
    PinUpdated(S, get_pieces_by_color(S, moved_piece_color), opponent_piece,
               get_king(-moved_piece_color),
               [on_board EXCEPT ![get_king(moved_piece_color)] =
                                    PossibleMoves(S, get_king(moved_piece_color))])

\* lines 353-378: the loop over the pieces of the side to move
RECURSIVE DefenderLoop(_, _, _, _)
DefenderLoop(S, moved_piece_color, i, on_board) ==
    IF i > Len(get_pieces_by_color(S, -moved_piece_color)) THEN S
    ELSE DefenderLoop(FilterPinned(S, moved_piece_color,
                                   get_pieces_by_color(S, -moved_piece_color)[i], on_board),
                      moved_piece_color, i + 1, on_board)

remove_moves_that_puts_king_in_chess(S, moved_piece_color) ==
    DefenderLoop(S, moved_piece_color, 1,
                 MovesOf(S, get_pieces_by_color(S, moved_piece_color)))

\* remove_moves_of_king_that_chess_him, lines 389-398: the loop over the
\* king's moves with the king lifted off its tile
RECURSIVE KingLoop(_, _, _, _)
RECURSIVE KingTried(_, _, _, _, _, _)
KingTried(kic, opponent_king, i, moves_to_remove, move, saved) ==
    KingLoop(SetAt(kic.st, move, saved), opponent_king, i + 1,
             IF kic.res THEN Append(moves_to_remove, move) ELSE moves_to_remove)

KingLoop(S, opponent_king, i, moves_to_remove) ==
    IF i > Len(S.obj[opponent_king].available_moves)
    THEN [st |-> S, rem |-> moves_to_remove]
    ELSE KingTried(king_in_chess([SetAt(S, S.obj[opponent_king].available_moves[i],
                                        opponent_king)
                                     EXCEPT !.obj[opponent_king].tile =
                                                S.obj[opponent_king].available_moves[i]],
                                 opponent_king),
                   opponent_king, i, moves_to_remove,
                   S.obj[opponent_king].available_moves[i],
                   At(S, S.obj[opponent_king].available_moves[i]))

\* lines 400-403: the king is put back and loses the moves found
KingRestore(lp, opponent_king, king_tile) ==
    [SetAt(lp.st, king_tile, opponent_king) EXCEPT
        !.filtered = Append(@, opponent_king),
        !.obj = [@ EXCEPT ![opponent_king].tile = king_tile,
                          ![opponent_king].available_moves = Without(@, lp.rem)]]

remove_moves_of_king_that_chess_him(S, opponent_king) ==
    KingRestore(KingLoop(SetAt(S, S.obj[opponent_king].tile, None), opponent_king, 1, <<>>),
                opponent_king, S.obj[opponent_king].tile)

\* `for piece in pieces: piece.update_possible_moves()`
\* (update_available_moves, lines 417-418; Game.update_moves_first_turn)
UpdateAll(S, pieces) == UpdateFirst(S, pieces, Len(pieces), MovesOf(S, pieces))

\* update_available_moves, line 436, given get_piece_that_check's result
Protect(checker, moved_piece_color, opponent_piece) ==
    removes_moves_that_doesnt_protect_king(checker.st, moved_piece_color, opponent_piece,
                                           checker.res)

\* update_available_moves, lines 433-445: the loop of the in-check branch,
\* with its return from inside the loop
RECURSIVE CheckLoop(_, _, _)
RECURSIVE CheckFiltered(_, _, _)
\* a faulty lines 441-442 that never return "checkmate"; the outcome
\* classification of C4 must fail with it
CheckFilteredNoMate(S, moved_piece_color, i) == CheckLoop(S, moved_piece_color, i + 1)

CheckFiltered(S, moved_piece_color, i) ==
    IF player_cant_move(S, -moved_piece_color)
    THEN [st |-> S, res |-> "checkmate"]
    ELSE CheckLoop(S, moved_piece_color, i + 1)

CheckLoop(S, moved_piece_color, i) ==
    IF i > Len(get_pieces_by_color(S, -moved_piece_color))
    THEN [st |-> S, res |-> "check"]
    ELSE CheckFiltered(
             IF get_pieces_by_color(S, -moved_piece_color)[i] = get_king(-moved_piece_color)
             THEN remove_moves_of_king_that_chess_him(S, get_king(-moved_piece_color))
             ELSE Protect(get_piece_that_check(S, moved_piece_color), moved_piece_color,
                          get_pieces_by_color(S, -moved_piece_color)[i]),
             moved_piece_color, i)

\* update_available_moves, lines 424-430: the king is not in check
NotInCheck(S, moved_piece_color) ==
    [st |-> S,
     res |-> IF player_cant_move(S, -moved_piece_color) THEN "stalemate" ELSE "move"]

\* update_available_moves, lines 420-445, given king_in_chess's result
Classify(kic, moved_piece_color) ==
    IF ~kic.res
    THEN NotInCheck(remove_moves_of_king_that_chess_him(
                        remove_moves_that_puts_king_in_chess(kic.st, moved_piece_color),
                        get_king(-moved_piece_color)),
                    moved_piece_color)
    ELSE CheckLoop(kic.st, moved_piece_color, 1)

\* Piece.update_available_moves(moved_piece); only moved_piece.color is read
update_available_moves(S, moved_piece_color) ==
    Classify(king_in_chess(UpdateAll([S EXCEPT !.filtered = <<>>],
                                     get_pieces_by_color(S, -moved_piece_color)),
                           get_king(-moved_piece_color)),
             moved_piece_color)

\* ---------------------------------------------------------- move executor

\* Piece.get_mod_move
get_mod_move(S, new_tile) == IF At(S, new_tile) # None THEN "capture" ELSE "move"

\* a move that leaves first_move as it was: with it the has-moved flag C35
\* must fail
Piece_move_piece_keeps_flag(S, p, current_tile, new_tile) ==
    [st  |-> [SetAt(SetAt(remove_piece(S, At(S, new_tile)), new_tile, p), current_tile, None)
                 EXCEPT !.obj = [@ EXCEPT ![p].tile = new_tile]],
     tag |-> get_mod_move(S, new_tile)]

\* Piece.move_piece
Piece_move_piece(S, p, current_tile, new_tile) ==
    [st  |-> [SetAt(SetAt(remove_piece(S, At(S, new_tile)), new_tile, p), current_tile, None)
                 EXCEPT !.obj = [@ EXCEPT ![p].tile = new_tile, ![p].first_move = FALSE]],
     tag |-> get_mod_move(S, new_tile)]

\* a promotion queen that keeps the first_move of a new piece: without
\* line 511 of Pawn.move_piece the promotion property C13 must fail
NewQueenUnmoved(new_tile, color) ==
    [kind |-> "Queen", color |-> color, tile |-> new_tile, first_move |-> TRUE,
     just_moved |-> FALSE, available_moves |-> <<>>]

\* the object Queen(new_tile, color, game_state) of Pawn.move_piece, after
\* its first_move has been cleared
NewQueen(new_tile, color) ==
    [kind |-> "Queen", color |-> color, tile |-> new_tile, first_move |-> FALSE,
     just_moved |-> FALSE, available_moves |-> <<>>]

\* Pawn.move_piece, lines 507-524: promotion, with the new queen created
\* as object new_queen of S
promote(S, p, current_tile, new_tile, new_queen) ==
    [st  |-> SetAt(SetAt(add_piece(remove_piece(remove_piece(S, At(S, new_tile)), p),
                                   new_queen),
                         new_tile, new_queen),
                   current_tile, None),
     tag |-> get_mod_move(S, new_tile)]

\* Pawn.move_piece, lines 527-530: just_moved is set by a double advance
\* from the starting square and cleared by any other move of this pawn
track_double_move(S, p, current_tile, new_tile) ==
    [S EXCEPT !.obj[p].just_moved =
        (Abs(new_tile[1] - current_tile[1]) = 2 /\ S.obj[p].first_move)]

\* Pawn.move_piece, lines 533-537: a diagonal move to an empty square
\* removes whatever stands behind the destination
capture_en_passant(S, p, current_tile, new_tile) ==
    IF At(S, new_tile) = None /\ new_tile[2] # current_tile[2]
    THEN SetAt(remove_piece(S, At(S, <<new_tile[1] + S.obj[p].color, new_tile[2]>>)),
               <<new_tile[1] + S.obj[p].color, new_tile[2]>>, None)
    ELSE S

\* Pawn.move_piece
Pawn_move_piece(S, p, current_tile, new_tile) ==
    IF new_tile[1] = 0 \/ new_tile[1] = 7
    THEN promote([S EXCEPT !.obj = Append(@, NewQueen(new_tile, S.obj[p].color))],
                 p, current_tile, new_tile, Len(S.obj) + 1)
    ELSE Piece_move_piece(capture_en_passant(track_double_move(S, p, current_tile, new_tile),
                                             p, current_tile, new_tile),
                          p, current_tile, new_tile)

\* King.move_piece, lines 610-616 / 620-626: the rook found on the corner
\* column goes to rook_col; with an empty corner `rook.tile = ...` raises
\* AttributeError after the two board cells have been written
Castle(S, p, current_tile, new_tile, corner_col, rook_col) ==
    IF S.board[new_tile[1]][corner_col] = None
    THEN [st  |-> SetAt(SetAt(S, <<new_tile[1], rook_col>>, None),
                        <<new_tile[1], corner_col>>, None),
          tag |-> "AttributeError"]
    ELSE [st  |-> Piece_move_piece(
                      [SetAt(SetAt(S, <<new_tile[1], rook_col>>,
                                   S.board[new_tile[1]][corner_col]),
                             <<new_tile[1], corner_col>>, None)
                          EXCEPT !.obj = [@ EXCEPT
                              ![S.board[new_tile[1]][corner_col]].tile =
                                  <<new_tile[1], rook_col>>,
                              ![S.board[new_tile[1]][corner_col]].first_move = FALSE]],
                      p, current_tile, new_tile).st,
          tag |-> "castling"]

\* King.move_piece
King_move_piece(S, p, current_tile, new_tile) ==
    IF S.obj[p].first_move /\ (new_tile[2] = 6 \/ new_tile[2] = 2)
    THEN Castle(S, p, current_tile, new_tile,
                IF new_tile[2] = 6 THEN 7 ELSE 0, IF new_tile[2] = 6 THEN 5 ELSE 3)
    ELSE Piece_move_piece(S, p, current_tile, new_tile)

\* <kind>.move_piece
move_piece(S, p, current_tile, new_tile) ==
    CASE S.obj[p].kind = "Pawn" -> Pawn_move_piece(S, p, current_tile, new_tile)
      [] S.obj[p].kind = "King" -> King_move_piece(S, p, current_tile, new_tile)
      [] OTHER                  -> Piece_move_piece(S, p, current_tile, new_tile)

\* ------------------------------------------------------- initial position

\* a back rank with king and queen exchanged: with it the initial position
\* C19 must fail
BackRankSwapped ==
    <<"Rook", "Knight", "Bishop", "King", "Queen", "Bishop", "Knight", "Rook">>

BackRank == <<"Rook", "Knight", "Bishop", "Queen", "King", "Bishop", "Knight", "Rook">>

\* a freshly constructed piece (Piece.__init__, Pawn.__init__)
NewPiece(kind, color, tile) ==
    [kind |-> kind, color |-> color, tile |-> tile, first_move |-> TRUE,
     just_moved |-> FALSE, available_moves |-> <<>>]

\* GameState.setup_initial_position; the registries are filled row by row,
\* which fixes the identifiers: black 1..16 (row 0, row 1), white 17..32
\* (row 6, row 7)
setup_initial_position ==
    [board |-> [r \in 0..7 |-> [c \in 0..7 |->
                  CASE r = 0 -> c + 1
                    [] r = 1 -> c + 9
                    [] r = 6 -> c + 17
                    [] r = 7 -> c + 25
                    [] OTHER -> None]],
     obj |-> [i \in 1..32 |->
                  CASE i <= 8  -> NewPiece(BackRank[i], BLACK, <<0, i - 1>>)
                    [] i <= 16 -> NewPiece("Pawn", BLACK, <<1, i - 9>>)
                    [] i <= 24 -> NewPiece("Pawn", WHITE, <<6, i - 17>>)
                    [] OTHER   -> NewPiece(BackRank[i - 24], WHITE, <<7, i - 25>>)],
     registry |-> [color \in {WHITE, BLACK} |->
                  IF color = BLACK THEN [i \in 1..16 |-> i]
                                   ELSE [i \in 1..16 |-> i + 16]],
     filtered |-> <<>>]

\* Game.update_moves_first_turn
update_moves_first_turn(S) == UpdateAll(S, get_pieces_by_color(S, WHITE))


\* ------------------------------------------------------------- game loop

VARIABLES
    board,               \* GameState.board
    obj,                 \* the Piece objects and their fields
    registry,            \* GameState._pieces
    filtered,            \* history: the pieces filtered by the last update_available_moves
    white_turn,          \* Game.white_turn
    end_menu,            \* Game.end_menu
    winner,              \* Game.winner
    piece_moved,         \* Game.piece_moved
    list_colors_player,  \* Game.list_colors_player: last departure and arrival tile
    original_move_type,  \* the tag move_piece returned for the last executed move
    game_state_type,     \* the tag update_available_moves returned for it
    final_sound,         \* the tag _determine_final_sound gave play_music for it
    crashed,             \* an exception left Game.run
    moved_piece,         \* history: the piece the last update_available_moves was called with
    IA,                  \* Game.IA: the game is played against the AI
    turn_IA,             \* Game.turn_IA
    player_color,        \* Game.player_color: the human player's colour
    board_flipped,       \* Game.board_flipped: the board is shown from Black's side
    ai_color,            \* Game.ai_player.color, None without an AI player
    script,              \* which line of Lines the players click through
    clicks,              \* how many of its clicks have been made
    free                 \* how many clicks were made after the line ended

vars == <<board, obj, registry, filtered, white_turn, end_menu, winner, piece_moved,
          list_colors_player, original_move_type, game_state_type, final_sound,
          crashed, IA, turn_IA, player_color, board_flipped, ai_color, moved_piece, script,
          clicks, free>>

\* the free clicks the players make once their line is over
MaxFree == 1

\* the games the main menu starts, as <<IA, player_color>>: two players,
\* and the AI against a human who plays White or Black
Modes == {<<FALSE, WHITE>>, <<TRUE, WHITE>>, <<TRUE, BLACK>>}

\* The press/release pairs the players perform, as
\* <<row pressed, col pressed, row released, col released>>.
Lines == <<
    \* fool's mate: f2f3 e7e5 g2g4 d8h4
    <<
       <<6, 5, 5, 5>>, <<1, 4, 3, 4>>, <<6, 6, 4, 6>>, <<0, 3, 4, 7>>
    >>,
    \* en passant offered two plies late, then executed: e2e4 d7d5 a2a3 d5d4 h2h3 d4e3
    <<
       <<6, 4, 4, 4>>, <<1, 3, 3, 3>>, <<6, 0, 5, 0>>, <<3, 3, 4, 3>>,
       <<6, 7, 5, 7>>, <<4, 3, 5, 4>>
    >>,
    \* en passant on a pawn of the mover's own colour: e2e4 a7a6 d2d4 a6a5 d4e5
    <<
       <<6, 4, 4, 4>>, <<1, 0, 2, 0>>, <<6, 3, 4, 3>>, <<2, 0, 3, 0>>,
       <<4, 3, 3, 4>>
    >>,
    \* castling while in check: e2e4 e7e6 g1f3 a7a6 f1e2 b7b6 d2d3 f8b4 e1g1
    <<
       <<6, 4, 4, 4>>, <<1, 4, 2, 4>>, <<7, 6, 5, 5>>, <<1, 0, 2, 0>>,
       <<7, 5, 6, 4>>, <<1, 1, 2, 1>>, <<6, 3, 5, 3>>, <<0, 5, 4, 1>>,
       <<7, 4, 7, 6>>
    >>,
    \* pinned knight interposes, king is captured: e2e4 d7d5 e4d5 d8d5 g1e2 d5e5 d2d4 e7e6 h2h3 f8b4 e2c3 e5e1
    \*     a2a3
    <<
       <<6, 4, 4, 4>>, <<1, 3, 3, 3>>, <<4, 4, 3, 3>>, <<0, 3, 3, 3>>,
       <<7, 6, 6, 4>>, <<3, 3, 3, 4>>, <<6, 3, 4, 3>>, <<1, 4, 2, 4>>,
       <<6, 7, 5, 7>>, <<0, 5, 4, 1>>, <<6, 4, 5, 2>>, <<3, 4, 7, 4>>,
       <<6, 0, 5, 0>>
    >>,
    \* castling after the rook was captured: g2g4 b7b6 e2e3 c8b7 f1e2 a7a6 g1h3 b7h1 e1g1
    <<
       <<6, 6, 4, 6>>, <<1, 1, 2, 1>>, <<6, 4, 5, 4>>, <<0, 2, 1, 1>>,
       <<7, 5, 6, 4>>, <<1, 0, 2, 0>>, <<7, 6, 5, 7>>, <<1, 1, 7, 7>>,
       <<7, 4, 7, 6>>
    >>,
    \* castling onto an empty corner: g2g4 b7b6 e2e3 c8b7 f1e2 a7a6 g1h3 b7h1 a2a3 h1e4 e1g1
    <<
       <<6, 6, 4, 6>>, <<1, 1, 2, 1>>, <<6, 4, 5, 4>>, <<0, 2, 1, 1>>,
       <<7, 5, 6, 4>>, <<1, 0, 2, 0>>, <<7, 6, 5, 7>>, <<1, 1, 7, 7>>,
       <<6, 0, 5, 0>>, <<7, 7, 4, 4>>, <<7, 4, 7, 6>>
    >>,
    \* castling through an attacked square: g1f3 b7b6 g2g3 c8b7 f1g2 e7e6 e2e3 b7a6 e1g1
    <<
       <<7, 6, 5, 5>>, <<1, 1, 2, 1>>, <<6, 6, 5, 6>>, <<0, 2, 1, 1>>,
       <<7, 5, 6, 6>>, <<1, 4, 2, 4>>, <<6, 4, 5, 4>>, <<1, 1, 2, 0>>,
       <<7, 4, 7, 6>>
    >>,
    \* en passant on the following ply: e2e4 a7a6 e4e5 d7d5 e5d6
    <<
       <<6, 4, 4, 4>>, <<1, 0, 2, 0>>, <<4, 4, 3, 4>>, <<1, 3, 3, 3>>,
       <<3, 4, 2, 3>>
    >>,
    \* stalemate in ten moves: e2e3 a7a5 d1h5 a8a6 h5a5 h7h5 h2h4 a6h6 a5c7 f7f6 c7d7 e8f7
    \*     d7b7 d8d3 b7b8 d3h7 b8c8 f7g6 c8e6
    <<
       <<6, 4, 5, 4>>, <<1, 0, 3, 0>>, <<7, 3, 3, 7>>, <<0, 0, 2, 0>>,
       <<3, 7, 3, 0>>, <<1, 7, 3, 7>>, <<6, 7, 4, 7>>, <<2, 0, 2, 7>>,
       <<3, 0, 1, 2>>, <<1, 5, 2, 5>>, <<1, 2, 1, 3>>, <<0, 4, 1, 5>>,
       <<1, 3, 1, 1>>, <<0, 3, 5, 3>>, <<1, 1, 0, 1>>, <<5, 3, 1, 7>>,
       <<0, 1, 0, 2>>, <<1, 5, 2, 6>>, <<0, 2, 2, 4>>
    >>,
    \* promotion with capture: h2h4 g7g5 h4g5 a7a6 g5g6 a6a5 g6h7 a5a4 h7g8
    <<
       <<6, 7, 4, 7>>, <<1, 6, 3, 6>>, <<4, 7, 3, 6>>, <<1, 0, 2, 0>>,
       <<3, 6, 2, 6>>, <<2, 0, 3, 0>>, <<2, 6, 1, 7>>, <<3, 0, 4, 0>>,
       <<1, 7, 0, 6>>
    >>,
    \* kingside castling of both sides: e2e4 e7e5 g1f3 g8f6 f1c4 f8c5 e1g1 e8g8
    <<
       <<6, 4, 4, 4>>, <<1, 4, 3, 4>>, <<7, 6, 5, 5>>, <<0, 6, 2, 5>>,
       <<7, 5, 4, 2>>, <<0, 5, 3, 2>>, <<7, 4, 7, 6>>, <<0, 4, 0, 6>>
    >>,
    \* queenside castling of both sides: d2d4 d7d5 b1c3 b8c6 c1f4 c8f5 d1d2 d8d7 e1c1 e8c8
    <<
       <<6, 3, 4, 3>>, <<1, 3, 3, 3>>, <<7, 1, 5, 2>>, <<0, 1, 2, 2>>,
       <<7, 2, 4, 5>>, <<0, 2, 3, 5>>, <<7, 3, 6, 3>>, <<0, 3, 1, 3>>,
       <<7, 4, 7, 2>>, <<0, 4, 0, 2>>
    >>,
    \* en passant onto a piece of the mover's own colour: e2e4 a7a6 g1f3 b7b6 f3e5 c7c6 d2d4 h7h6 d4e5
    <<
       <<6, 4, 4, 4>>, <<1, 0, 2, 0>>, <<7, 6, 5, 5>>, <<1, 1, 2, 1>>,
       <<5, 5, 3, 4>>, <<1, 2, 2, 2>>, <<6, 3, 4, 3>>, <<1, 7, 2, 7>>,
       <<4, 3, 3, 4>>
    >>,
    \* pinned bishop may not take its pinner: d2d4 e7e6 c1d2 f8b4 d2b4 d2c3
    <<
       <<6, 3, 4, 3>>, <<1, 4, 2, 4>>, <<7, 2, 6, 3>>, <<0, 5, 4, 1>>,
       <<6, 3, 4, 1>>, <<6, 3, 5, 2>>
    >>,
    \* scholar's mate: e2e4 e7e5 f1c4 b8c6 d1h5 g8f6 h5f7
    <<
       <<6, 4, 4, 4>>, <<1, 4, 3, 4>>, <<7, 5, 4, 2>>, <<0, 1, 2, 2>>,
       <<7, 3, 3, 7>>, <<0, 6, 2, 5>>, <<3, 7, 1, 5>>
    >>,
    \* check answered by interposing and by capturing: e2e4 f7f6 d1h5 g7g6 h5g6 h7g6
    <<
       <<6, 4, 4, 4>>, <<1, 5, 2, 5>>, <<7, 3, 3, 7>>, <<1, 6, 2, 6>>,
       <<3, 7, 2, 6>>, <<1, 7, 2, 6>>
    >>,
    \* the king has moved and is back home: e2e4 e7e5 g1f3 g8f6 f1c4 f8c5 e1e2 a7a6 e2e1 a6a5
    <<
       <<6, 4, 4, 4>>, <<1, 4, 3, 4>>, <<7, 6, 5, 5>>, <<0, 6, 2, 5>>,
       <<7, 5, 4, 2>>, <<0, 5, 3, 2>>, <<7, 4, 6, 4>>, <<1, 0, 2, 0>>,
       <<6, 4, 7, 4>>, <<2, 0, 3, 0>>
    >>,
    \* the rook has moved and is back home: e2e4 e7e5 g1f3 g8f6 f1c4 f8c5 h1g1 a7a6 g1h1 a6a5
    <<
       <<6, 4, 4, 4>>, <<1, 4, 3, 4>>, <<7, 6, 5, 5>>, <<0, 6, 2, 5>>,
       <<7, 5, 4, 2>>, <<0, 5, 3, 2>>, <<7, 7, 7, 6>>, <<1, 0, 2, 0>>,
       <<7, 6, 7, 7>>, <<2, 0, 3, 0>>
    >>,
    \* promotion on an empty square: h2h4 g7g5 h4g5 h7h6 g5h6 g8f6 h6h7 h8g8 h7h8
    <<
       <<6, 7, 4, 7>>, <<1, 6, 3, 6>>, <<4, 7, 3, 6>>, <<1, 7, 2, 7>>,
       <<3, 6, 2, 7>>, <<0, 6, 2, 5>>, <<2, 7, 1, 7>>, <<0, 7, 0, 6>>,
       <<1, 7, 0, 7>>
    >>,
    \* releases on tiles that are not available moves: e2e5 e2e4 e7e5 e1e3 f1c4 f8c5 e1g1 g1f3 e8g8 g8f6 e1c1 e1g1
    <<
       <<6, 4, 3, 4>>, <<6, 4, 4, 4>>, <<1, 4, 3, 4>>, <<7, 4, 5, 4>>,
       <<7, 5, 4, 2>>, <<0, 5, 3, 2>>, <<7, 4, 7, 6>>, <<7, 6, 5, 5>>,
       <<0, 4, 0, 6>>, <<0, 6, 2, 5>>, <<7, 4, 7, 2>>, <<7, 4, 7, 6>>
    >>,
    \* double check by a knight that uncovers the queen: e2e4 e7e5 d2d4 e5d4 b1c3 d7d5 e4d5 a7a6 c3e4 h7h6 d1e2 a6a5
    \*     e4d6 e8d7
    <<
       <<6, 4, 4, 4>>, <<1, 4, 3, 4>>, <<6, 3, 4, 3>>, <<3, 4, 4, 3>>,
       <<7, 1, 5, 2>>, <<1, 3, 3, 3>>, <<4, 4, 3, 3>>, <<1, 0, 2, 0>>,
       <<5, 2, 4, 4>>, <<1, 7, 2, 7>>, <<7, 3, 6, 4>>, <<2, 0, 3, 0>>,
       <<4, 4, 2, 3>>, <<0, 4, 1, 3>>
    >>,
    \* a pinned knight captures the checking queen: d2d3 e7e6 b1d2 f8b4 e2e4 d8f6 h2h3 f6f4 h3h4 f4e4 d2e4
    <<
       <<6, 3, 5, 3>>, <<1, 4, 2, 4>>, <<7, 1, 6, 3>>, <<0, 5, 4, 1>>,
       <<6, 4, 4, 4>>, <<0, 3, 2, 5>>, <<6, 7, 5, 7>>, <<2, 5, 4, 5>>,
       <<5, 7, 4, 7>>, <<4, 5, 4, 4>>, <<6, 3, 4, 4>>
    >>,
    \* check by a bishop with the queen behind it on the same diagonal: e2e4 h7h6 f1b5 h6h5 c2c3 g7g6 d1a4 g6g5 b5d7
    <<
       <<6, 4, 4, 4>>, <<1, 7, 2, 7>>, <<7, 5, 3, 1>>, <<2, 7, 3, 7>>,
       <<6, 2, 5, 2>>, <<1, 6, 2, 6>>, <<7, 3, 4, 0>>, <<2, 6, 3, 6>>,
       <<3, 1, 1, 3>>
    >>
>>


GS == [board |-> board, obj |-> obj, registry |-> registry, filtered |-> filtered]

\* the state Game.__init__ and _start_pvp_game or _start_ai_game leave
Started(S, mode) ==
    /\ board = S.board
    /\ obj = S.obj
    /\ registry = S.registry
    /\ filtered = S.filtered
    /\ white_turn = TRUE
    /\ end_menu = FALSE
    /\ winner = 0
    /\ piece_moved = None
    /\ list_colors_player = <<None, None>>
    /\ original_move_type = "none"
    /\ game_state_type = "none"
    /\ final_sound = "none"
    /\ crashed = FALSE
    /\ moved_piece = None
    /\ IA = mode[1]
    /\ player_color = mode[2]
    /\ board_flipped = (mode[2] = BLACK)
    /\ turn_IA = (mode[1] /\ mode[2] = BLACK)
    /\ ai_color = IF mode[1] THEN -mode[2] ELSE None

Init ==
    /\ \E mode \in Modes :
          Started(update_moves_first_turn(setup_initial_position), mode)
    /\ script \in 1..Len(Lines)
    /\ clicks = 0
    /\ free = 0

\* a press that selects any piece at any time, whoever is to move and also
\* on the end screen: with it the terminal property C15 must fail
SelectableAnyPiece(tile_pressed) ==
    /\ ~crashed
    /\ At(GS, tile_pressed) # None

\* events_game_without_IA, lines 257-269: a press selects a piece of the
\* side to move
Selectable(tile_pressed) ==
    /\ ~end_menu
    /\ ~crashed
    /\ At(GS, tile_pressed) # None
    /\ obj[At(GS, tile_pressed)].color = (IF white_turn THEN WHITE ELSE BLACK)

\* Game.run, line 405
Valid(tile_pressed, tile_moved) ==
    Contains(obj[At(GS, tile_pressed)].available_moves, tile_moved)

\* move_piece raised: the exception leaves Game.run with the board cells
\* King.move_piece has written
Crash(S) ==
    /\ board' = S.board
    /\ obj' = S.obj
    /\ registry' = S.registry
    /\ filtered' = S.filtered
    /\ crashed' = TRUE
    /\ UNCHANGED <<white_turn, end_menu, winner, piece_moved,
                   list_colors_player, original_move_type, game_state_type, final_sound,
                   IA, turn_IA, player_color, board_flipped, ai_color, moved_piece>>

\* _determine_final_sound without the priority of "check": the tag of
\* move_piece is kept unless the game is over; with it C31 must fail
final_sound_without_check(original_move_type_, game_state_type_) ==
    IF game_state_type_ \in {"checkmate", "stalemate"}
    THEN game_state_type_
    ELSE original_move_type_

\* Game._determine_final_sound
determine_final_sound(original_move_type_, game_state_type_) ==
    IF game_state_type_ \in {"checkmate", "stalemate"}
    THEN game_state_type_
    ELSE IF game_state_type_ = "check"
    THEN "check"
    ELSE original_move_type_

\* Game.run with line 432 naming the side that is to move next as the
\* winner: with it the winner attribution C30 must fail
PlayedLoserWins(tile_pressed, tile_moved, piece_clicked, tag, upd) ==
    /\ board' = upd.st.board
    /\ obj' = upd.st.obj
    /\ registry' = upd.st.registry
    /\ filtered' = upd.st.filtered
    /\ white_turn' = ~white_turn
    /\ piece_moved' = piece_clicked
    /\ moved_piece' = piece_clicked
    /\ list_colors_player' = <<tile_pressed, tile_moved>>
    /\ original_move_type' = tag
    /\ game_state_type' = upd.res
    /\ final_sound' = determine_final_sound(tag, upd.res)
    /\ end_menu' = (upd.res \in {"checkmate", "stalemate"})
    /\ winner' = IF upd.res = "checkmate"
                 THEN (IF ~white_turn THEN 1 ELSE -1)
                 ELSE IF upd.res = "stalemate" THEN 0 ELSE winner
    /\ turn_IA' = TRUE
    /\ UNCHANGED <<crashed, IA, player_color, board_flipped, ai_color>>

\* Game.run, lines 411-436, given update_available_moves's result
Played(tile_pressed, tile_moved, piece_clicked, tag, upd) ==
    /\ board' = upd.st.board
    /\ obj' = upd.st.obj
    /\ registry' = upd.st.registry
    /\ filtered' = upd.st.filtered
    /\ white_turn' = ~white_turn
    /\ piece_moved' = piece_clicked
    /\ moved_piece' = piece_clicked
    /\ list_colors_player' = <<tile_pressed, tile_moved>>
    /\ original_move_type' = tag
    /\ game_state_type' = upd.res
    /\ final_sound' = determine_final_sound(tag, upd.res)
    /\ end_menu' = (upd.res \in {"checkmate", "stalemate"})
    /\ winner' = IF upd.res = "checkmate"
                 THEN (IF ~white_turn THEN -1 ELSE 1)
                 ELSE IF upd.res = "stalemate" THEN 0 ELSE winner
    /\ turn_IA' = TRUE
    /\ UNCHANGED <<crashed, IA, player_color, board_flipped, ai_color>>

\* Game.run, lines 408-436, given move_piece's result
Moved(tile_pressed, tile_moved, piece_clicked, mv) ==
    IF mv.tag = "AttributeError"
    THEN Crash(mv.st)
    ELSE Played(tile_pressed, tile_moved, piece_clicked, mv.tag,
                update_available_moves(mv.st, obj[piece_clicked].color))

\* Game.run, lines 408-436: the released tile is one of the piece's
\* available moves
Execute(tile_pressed, tile_moved) ==
    Moved(tile_pressed, tile_moved, At(GS, tile_pressed),
          move_piece(GS, At(GS, tile_pressed), tile_pressed, tile_moved))

\* the next click of the line
Click == Lines[script][clicks + 1]

\* Game.run, line 377: the human part of the loop runs
HumanTurn == ~IA \/ ~turn_IA

\* a click of the line that moves a piece
Move ==
    /\ HumanTurn
    /\ clicks < Len(Lines[script])
    /\ Selectable(<<Click[1], Click[2]>>)
    /\ Valid(<<Click[1], Click[2]>>, <<Click[3], Click[4]>>)
    /\ Execute(<<Click[1], Click[2]>>, <<Click[3], Click[4]>>)
    /\ clicks' = clicks + 1
    /\ UNCHANGED <<script, free>>

\* a rejected release that passes the turn all the same: with it the
\* no-mutation property C14 must fail
RejectPassingTurn ==
    /\ HumanTurn
    /\ clicks < Len(Lines[script])
    /\ Selectable(<<Click[1], Click[2]>>)
    /\ ~Valid(<<Click[1], Click[2]>>, <<Click[3], Click[4]>>)
    /\ clicks' = clicks + 1
    /\ white_turn' = ~white_turn
    /\ UNCHANGED <<board, obj, registry, filtered, end_menu, winner, piece_moved,
                   list_colors_player, original_move_type, game_state_type, final_sound, crashed,
                   IA, turn_IA, player_color, board_flipped, ai_color, moved_piece, script, free>>

\* Game.run, lines 451-454: a click of the line released on a tile that is
\* not an available move
Reject ==
    /\ HumanTurn
    /\ clicks < Len(Lines[script])
    /\ Selectable(<<Click[1], Click[2]>>)
    /\ ~Valid(<<Click[1], Click[2]>>, <<Click[3], Click[4]>>)
    /\ clicks' = clicks + 1
    /\ UNCHANGED <<board, obj, registry, filtered, white_turn, end_menu, winner, piece_moved,
                   list_colors_player, original_move_type, game_state_type, final_sound, crashed,
                   IA, turn_IA, player_color, board_flipped, ai_color, moved_piece, script, free>>

\* after the line of a two-player game, any piece of the side to move to
\* any of its available moves
FreeMove ==
    /\ ~IA
    /\ clicks = Len(Lines[script])
    /\ free < MaxFree
    /\ \E r \in 0..7, c \in 0..7 :
          /\ Selectable(<<r, c>>)
          /\ \E i \in 1..Len(obj[board[r][c]].available_moves) :
                Execute(<<r, c>>, obj[board[r][c]].available_moves[i])
    /\ free' = free + 1
    /\ UNCHANGED <<script, clicks>>

\* Game.run, line 457: the AI block of the loop runs.  It follows the human
\* part in the same pass of the loop, so a move of the human that ended the
\* game does not keep it from running.
AITurn == IA /\ turn_IA /\ ai_color # None /\ ~crashed

\* Game.run, lines 471-491, given update_available_moves's result;
\* piece_moved is not assigned by the AI block
AIPlayed(from_tile, to_tile, ai_piece, tag, upd) ==
    /\ board' = upd.st.board
    /\ obj' = upd.st.obj
    /\ registry' = upd.st.registry
    /\ filtered' = upd.st.filtered
    /\ white_turn' = ~white_turn
    /\ turn_IA' = FALSE
    /\ moved_piece' = ai_piece
    /\ list_colors_player' = <<from_tile, to_tile>>
    /\ original_move_type' = tag
    /\ game_state_type' = upd.res
    /\ final_sound' = determine_final_sound(tag, upd.res)
    /\ end_menu' = (end_menu \/ upd.res \in {"checkmate", "stalemate"})
    /\ winner' = IF upd.res = "checkmate" THEN ai_color
                 ELSE IF upd.res = "stalemate" THEN 0 ELSE winner
    /\ UNCHANGED <<piece_moved, crashed, IA, player_color, board_flipped, ai_color>>

\* Game.run, lines 469-491, given move_piece's result
AIMoved(from_tile, to_tile, ai_piece, mv) ==
    IF mv.tag = "AttributeError"
    THEN Crash(mv.st)
    ELSE AIPlayed(from_tile, to_tile, ai_piece, mv.tag,
                  update_available_moves(mv.st, obj[ai_piece].color))

\* Game.run, lines 463-491: the move PlayerAI.play returned is executed on
\* the piece found on its departure tile
AIExecute(from_tile, to_tile) ==
    IF At(GS, from_tile) = None
    THEN Crash(GS)
    ELSE AIMoved(from_tile, to_tile, At(GS, from_tile),
                 move_piece(GS, At(GS, from_tile), from_tile, to_tile))

\* PlayerAI.play draws the next click of the line, one of its legal moves
AIMove ==
    /\ AITurn
    /\ clicks < Len(Lines[script])
    /\ \E i \in 1..Len(registry[ai_color]) :
          /\ obj[registry[ai_color][i]].tile = <<Click[1], Click[2]>>
          /\ Contains(obj[registry[ai_color][i]].available_moves, <<Click[3], Click[4]>>)
    /\ AIExecute(<<Click[1], Click[2]>>, <<Click[3], Click[4]>>)
    /\ clicks' = clicks + 1
    /\ UNCHANGED <<script, free>>

\* after the line, PlayerAI.play draws any of its legal moves
AIFreeMove ==
    /\ AITurn
    /\ clicks = Len(Lines[script])
    /\ free < MaxFree
    /\ \E i \in 1..Len(registry[ai_color]) :
          \E k \in 1..Len(obj[registry[ai_color][i]].available_moves) :
              AIExecute(obj[registry[ai_color][i]].tile,
                        obj[registry[ai_color][i]].available_moves[k])
    /\ free' = free + 1
    /\ UNCHANGED <<script, clicks>>

\* Game.run, lines 496-498: PlayerAI.play found no legal move and returned
\* None
AIPass ==
    /\ AITurn
    /\ \A i \in 1..Len(registry[ai_color]) :
          obj[registry[ai_color][i]].available_moves = <<>>
    /\ turn_IA' = FALSE
    /\ UNCHANGED <<board, obj, registry, filtered, white_turn, end_menu, winner,
                   piece_moved, list_colors_player, original_move_type,
                   game_state_type, final_sound, crashed, IA, player_color, board_flipped, ai_color,
                   moved_piece, script, clicks, free>>

\* Game.reset_game, lines 160-186, called with the board S that
\* initialize_game and update_moves_first_turn produce
reset_game(S) ==
    /\ board' = S.board
    /\ obj' = S.obj
    /\ registry' = S.registry
    /\ filtered' = S.filtered
    /\ white_turn' = TRUE
    /\ winner' = 0
    /\ piece_moved' = None
    /\ list_colors_player' = <<None, None>>
    /\ turn_IA' = FALSE
    /\ player_color' = WHITE
    /\ board_flipped' = FALSE
    /\ ai_color' = IF IA /\ ai_color # None THEN -WHITE ELSE ai_color
    /\ original_move_type' = "none"
    /\ game_state_type' = "none"
    /\ final_sound' = "none"
    /\ moved_piece' = None
    /\ UNCHANGED <<IA, crashed>>

\* Game._replay_game, lines 145-151, reached from the end screen by the
\* "Play Again" button or the Return and Space keys (events_game_without_IA,
\* lines 239-242 and 272-273); the players then click through any line
Replay ==
    /\ end_menu
    /\ ~crashed
    /\ HumanTurn
    /\ end_menu' = FALSE
    /\ reset_game(update_moves_first_turn(setup_initial_position))
    /\ script' \in 1..Len(Lines)
    /\ clicks' = 0
    /\ free' = 0

Next == Move \/ Reject \/ FreeMove \/ AIMove \/ AIFreeMove \/ AIPass \/ Replay

Spec == Init /\ [][Next]_vars

\* ------------------------------------------------------------- properties

\* the colour of the side to move
Turn == IF white_turn THEN WHITE ELSE BLACK

\* a position the game continues from
Playing == ~end_menu /\ ~crashed

\* the pieces of a colour attack a tile: the pseudo-legal move set of one of
\* its registered pieces, computed on the board of S, contains the tile
Attacks(S, color, tile) ==
    \E i \in 1..Len(S.registry[color]) :
        Contains(PossibleMoves(S, S.registry[color][i]), tile)

\* executing the move of piece p yields a position in which no enemy piece's
\* pseudo-legal move set contains the tile of p's own king
KingSafeAfter(S, p, move) ==
    LET mv == move_piece(S, p, S.obj[p].tile, move)
    IN \/ mv.tag = "AttributeError"
       \/ ~Attacks(mv.st, -S.obj[p].color, mv.st.obj[get_king(S.obj[p].color)].tile)

\* the pseudo-legal destinations of piece p other than castling
Pseudo(S, p) ==
    IF S.obj[p].kind = "King"
    THEN get_king_moves(S, S.obj[p].tile, S.obj[p].color)
    ELSE PossibleMoves(S, p)

\* the king of the side to move is attacked in the current position
KingAttacked == Attacks(GS, -Turn, obj[get_king(Turn)].tile)

\* the side to move has no available move
NoMoves == player_cant_move(GS, Turn)

\* the home row of a colour's king
HomeRow(color) == IF color = WHITE THEN 7 ELSE 0

\* the side to move is offered castling toward column col (6 kingside, 2
\* queenside): its king stands on its home tile and the tile two steps
\* away is one of its available moves
CastlingOffered(col) ==
    /\ obj[get_king(Turn)].tile = <<HomeRow(Turn), 4>>
    /\ Contains(obj[get_king(Turn)].available_moves, <<HomeRow(Turn), col>>)

\* the home rook of the side to move toward column col
HomeRook(col) == IF col = 6 THEN rook_right(Turn) ELSE rook_left(Turn)

\* C1: every destination in the available_moves of a piece of the side to
\* move is king-safe: executing it leaves the mover's own king on a tile
\* that no enemy piece's pseudo-legal move set contains.
C1_FilterSound ==
    Playing =>
        \A i \in 1..Len(registry[Turn]) :
            \A k \in 1..Len(obj[registry[Turn][i]].available_moves) :
                KingSafeAfter(GS, registry[Turn][i],
                              obj[registry[Turn][i]].available_moves[k])

\* C2: the available_moves of each piece of the side to move contain every
\* pseudo-legal destination of that piece whose execution leaves the
\* mover's own king unattacked: the filter never removes a king-safe move.
C2_FilterComplete ==
    Playing =>
        \A i \in 1..Len(registry[Turn]) :
            \A k \in 1..Len(Pseudo(GS, registry[Turn][i])) :
                KingSafeAfter(GS, registry[Turn][i], Pseudo(GS, registry[Turn][i])[k])
                    => Contains(obj[registry[Turn][i]].available_moves,
                                Pseudo(GS, registry[Turn][i])[k])

\* C3: no available move of a piece of the side to move is the tile of the
\* opposing king, and each colour's king is in its registry and on the board.
C3_KingNeverTarget ==
    ~crashed =>
        /\ Playing =>
              \A i \in 1..Len(registry[Turn]) :
                  ~Contains(obj[registry[Turn][i]].available_moves,
                            obj[get_king(-Turn)].tile)
        /\ \A color \in {WHITE, BLACK} :
              /\ Contains(registry[color], get_king(color))
              /\ At(GS, obj[get_king(color)].tile) = get_king(color)

\* the defender of the last update_available_moves: the colour opposite to
\* the piece it was called with
Defender == -obj[moved_piece].color

\* the defender's king is attacked in the current position
DefenderAttacked == Attacks(GS, -Defender, obj[get_king(Defender)].tile)

\* C4: after a move is played, the outcome update_available_moves returned
\* is "checkmate" exactly when the defender's king is attacked and no
\* defender piece has an available move, "check" exactly when it is
\* attacked and some piece has one, "stalemate" exactly when it is not
\* attacked and no piece has one, "move" otherwise; and with "check" or
\* "move" the legality filter has gone through every defender piece.
C4_OutcomeClassification ==
    (game_state_type # "none" /\ ~crashed) =>
        /\ game_state_type =
              (IF DefenderAttacked
               THEN IF player_cant_move(GS, Defender) THEN "checkmate" ELSE "check"
               ELSE IF player_cant_move(GS, Defender) THEN "stalemate" ELSE "move")
        /\ game_state_type \in {"check", "move"} =>
              \A i \in 1..Len(registry[Defender]) :
                  Contains(filtered, registry[Defender][i])

\* a stalemate has been returned: the king of the side to move is not
\* attacked and none of its pieces has a move
C4_Witness ==
    /\ game_state_type = "stalemate"
    /\ ~DefenderAttacked
    /\ player_cant_move(GS, Defender)
    /\ Len(registry[Defender]) > 1

\* an en-passant destination of pawn p: a diagonal step onto an empty tile
EnPassantDestination(p, t) ==
    /\ obj[p].kind = "Pawn"
    /\ t[2] # obj[p].tile[2]
    /\ At(GS, t) = None

\* the last ply was the two-square advance of the enemy pawn that stands
\* beside pawn p on column col
JustAdvancedBeside(p, col) ==
    /\ board[obj[p].tile[1]][col] # None
    /\ obj[board[obj[p].tile[1]][col]].kind = "Pawn"
    /\ obj[board[obj[p].tile[1]][col]].color = -obj[p].color
    /\ list_colors_player[2] = <<obj[p].tile[1], col>>
    /\ Abs(list_colors_player[2][1] - list_colors_player[1][1]) = 2

\* C5: a pawn of the side to move has an en-passant destination among its
\* available_moves only on the ply immediately following the two-square
\* advance of the adjacent enemy pawn.
C5_EnPassantOnePly ==
    Playing =>
        \A i \in 1..Len(registry[Turn]) :
            \A k \in 1..Len(obj[registry[Turn][i]].available_moves) :
                EnPassantDestination(registry[Turn][i],
                                     obj[registry[Turn][i]].available_moves[k])
                    => JustAdvancedBeside(registry[Turn][i],
                                          obj[registry[Turn][i]].available_moves[k][2])

\* C6: when the king of the side to move is attacked in the current
\* position, neither castling destination is among its available_moves.
C6_NoCastlingOutOfCheck ==
    (Playing /\ KingAttacked) => (~CastlingOffered(6) /\ ~CastlingOffered(2))

\* C7: a castling destination is among the king's available_moves only if
\* neither the tile the king passes over nor the destination is in the
\* pseudo-legal move set of an enemy piece on the current board.
C7_NoCastlingThroughAttack ==
    Playing =>
        /\ CastlingOffered(6) =>
              /\ ~Attacks(GS, -Turn, <<HomeRow(Turn), 5>>)
              /\ ~Attacks(GS, -Turn, <<HomeRow(Turn), 6>>)
        /\ CastlingOffered(2) =>
              /\ ~Attacks(GS, -Turn, <<HomeRow(Turn), 3>>)
              /\ ~Attacks(GS, -Turn, <<HomeRow(Turn), 2>>)

\* C8: castling is not offered toward a home rook that was captured without
\* ever moving, and King.move_piece never castles without a rook of the
\* king's colour on the corner: it never raises, and after a castling a
\* rook of the king's colour stands beside the king.
C8_NoCastlingWithCapturedRook ==
    /\ ~crashed
    /\ Playing =>
          \A col \in {6, 2} :
              (/\ obj[HomeRook(col)].first_move
               /\ ~Contains(registry[Turn], HomeRook(col)))
                  => ~CastlingOffered(col)
    /\ original_move_type = "castling" =>
          /\ At(GS, <<obj[moved_piece].tile[1],
                     IF obj[moved_piece].tile[2] = 6 THEN 5 ELSE 3>>) # None
          /\ obj[At(GS, <<obj[moved_piece].tile[1],
                         IF obj[moved_piece].tile[2] = 6 THEN 5 ELSE 3>>)].kind = "Rook"
          /\ obj[At(GS, <<obj[moved_piece].tile[1],
                         IF obj[moved_piece].tile[2] = 6 THEN 5 ELSE 3>>)].color
                 = obj[moved_piece].color

\* C9: a castling destination is among the available_moves of the king of
\* the side to move only if the king and the home rook on that side have
\* never moved and every tile strictly between them is empty.
C9_CastlingPreconditions ==
    Playing =>
        /\ CastlingOffered(6) =>
              /\ obj[get_king(Turn)].first_move
              /\ obj[rook_right(Turn)].first_move
              /\ At(GS, <<HomeRow(Turn), 5>>) = None
              /\ At(GS, <<HomeRow(Turn), 6>>) = None
        /\ CastlingOffered(2) =>
              /\ obj[get_king(Turn)].first_move
              /\ obj[rook_left(Turn)].first_move
              /\ At(GS, <<HomeRow(Turn), 1>>) = None
              /\ At(GS, <<HomeRow(Turn), 2>>) = None
              /\ At(GS, <<HomeRow(Turn), 3>>) = None

\* after some moves were played, queenside castling is offered to a king
\* that has never moved, with its rook unmoved and the tiles between empty
C9_Witness ==
    /\ Playing
    /\ clicks >= 8
    /\ CastlingOffered(2)
    /\ obj[get_king(Turn)].first_move
    /\ obj[rook_left(Turn)].first_move
    /\ At(GS, <<HomeRow(Turn), 1>>) = None

\* C10: no available move of a piece of the side to move is a tile occupied
\* by a piece of the same colour.
C10_NoOwnOccupiedDestination ==
    Playing =>
        \A i \in 1..Len(registry[Turn]) :
            \A k \in 1..Len(obj[registry[Turn][i]].available_moves) :
                \/ At(GS, obj[registry[Turn][i]].available_moves[k]) = None
                \/ obj[At(GS, obj[registry[Turn][i]].available_moves[k])].color # Turn

\* the board and the registries of S agree: every occupied cell holds a
\* piece whose tile is the cell and which is registered under its own
\* colour and not under the other one
Consistent(S) ==
    \A r \in 0..7, c \in 0..7 :
        S.board[r][c] # None =>
            /\ S.obj[S.board[r][c]].tile = <<r, c>>
            /\ Contains(S.registry[S.obj[S.board[r][c]].color], S.board[r][c])
            /\ ~Contains(S.registry[-S.obj[S.board[r][c]].color], S.board[r][c])

\* P holds of the result of move_piece for every move the side to move can
\* execute from the current position
AfterEveryMove(P(_, _, _, _)) ==
    \A i \in 1..Len(registry[Turn]) :
        \A k \in 1..Len(obj[registry[Turn][i]].available_moves) :
            P(registry[Turn][i], obj[registry[Turn][i]].tile,
              obj[registry[Turn][i]].available_moves[k],
              move_piece(GS, registry[Turn][i], obj[registry[Turn][i]].tile,
                         obj[registry[Turn][i]].available_moves[k]))

\* C11: between plies the board and the registries are consistent, both
\* after update_available_moves (the current state) and after move_piece
\* (the result of every executable move, before the legality filter runs):
\* each occupied cell holds a piece whose tile is that cell and which is in
\* the registry of its own colour only.
C11_BoardRegistryConsistent ==
    ~crashed =>
        /\ Consistent(GS)
        /\ Playing => AfterEveryMove(LAMBDA p, from, to, mv :
                          mv.tag # "AttributeError" => Consistent(mv.st))

\* the members of a registry
Members(S, color) == {S.registry[color][i] : i \in 1..Len(S.registry[color])}

\* S and T differ at most in the available_moves caches (and in the order
\* of the registries)
SameButMoves(S, T) ==
    /\ S.board = T.board
    /\ Len(S.obj) = Len(T.obj)
    /\ \A i \in 1..Len(S.obj) :
          /\ S.obj[i].tile = T.obj[i].tile
          /\ S.obj[i].first_move = T.obj[i].first_move
          /\ S.obj[i].just_moved = T.obj[i].just_moved
    /\ Members(S, WHITE) = Members(T, WHITE)
    /\ Members(S, BLACK) = Members(T, BLACK)

\* a step that replays a finished game: the only step that leaves the end
\* screen
Replayed == end_menu /\ ~end_menu'

\* a step of Game.run that executed a move
Executed == white_turn' # white_turn /\ ~Replayed

\* what move_piece returned in that step, before update_available_moves ran
MoveResult ==
    move_piece(GS, At(GS, list_colors_player'[1]),
               list_colors_player'[1], list_colors_player'[2])

\* C12: the legality filter is transactional: in every step that executes
\* a move, whatever update_available_moves returns, the board, every
\* piece's tile, first_move and just_moved and the membership of both
\* registries are after the call what move_piece left; only the
\* available_moves caches differ.
C12_FilterTransactional ==
    [][Executed =>
          SameButMoves(MoveResult.st,
                       [board |-> board', obj |-> obj', registry |-> registry',
                        filtered |-> filtered'])]_vars

\* piece p is in no registry and on no cell of S
Gone(S, p) ==
    /\ ~Contains(S.registry[WHITE], p)
    /\ ~Contains(S.registry[BLACK], p)
    /\ \A r \in 0..7, c \in 0..7 : S.board[r][c] # p

\* what Pawn.move_piece must leave in T when pawn p of S went from `from`
\* to the last-rank tile `to`
Promoted(S, T, p, from, to) ==
    /\ At(T, to) # None
    /\ At(T, to) # p
    /\ T.obj[At(T, to)].kind = "Queen"
    /\ T.obj[At(T, to)].color = S.obj[p].color
    /\ ~T.obj[At(T, to)].first_move
    /\ T.obj[At(T, to)].tile = to
    /\ Contains(T.registry[S.obj[p].color], At(T, to))
    /\ Gone(T, p)
    /\ At(T, from) = None
    /\ At(S, to) # None =>
          /\ ~Contains(T.registry[WHITE], At(S, to))
          /\ ~Contains(T.registry[BLACK], At(S, to))

\* C13: whenever move_piece takes a pawn onto row 0 or row 7, the
\* destination then holds a Queen of the pawn's colour with first_move
\* false and tile equal to the destination, registered under that colour;
\* the pawn is in no registry and on no cell, the origin cell is empty and
\* a piece that stood on the destination is in no registry.
C13_Promotion ==
    Playing => AfterEveryMove(LAMBDA p, from, to, mv :
                   (obj[p].kind = "Pawn" /\ (to[1] = 0 \/ to[1] = 7)) =>
                       Promoted(GS, mv.st, p, from, to))

\* a pawn has been promoted on an empty square and stands there as the
\* thirty-third piece, a queen
C13_Witness ==
    /\ Len(obj) = 33
    /\ obj[33].kind = "Queen"
    /\ At(GS, obj[33].tile) = 33
    /\ original_move_type = "move"
    /\ moved_piece # None
    /\ obj[moved_piece].kind = "Pawn"

\* a step in which the human released the pressed piece on a tile that is
\* not one of its available moves
Rejected ==
    /\ HumanTurn
    /\ clicks < Len(Lines[script])
    /\ clicks' = clicks + 1
    /\ Selectable(<<Click[1], Click[2]>>)
    /\ ~Valid(<<Click[1], Click[2]>>, <<Click[3], Click[4]>>)

\* C14: an attempted move whose destination is not in the selected piece's
\* available_moves changes nothing: the board, both registries, every
\* piece's tile, flags and cached moves and the side to move (white_turn,
\* turn_IA) stay as they are, and no move_piece or update_available_moves
\* result is recorded.
C14_RejectedMoveNoMutation ==
    [][Rejected =>
          UNCHANGED <<board, obj, registry, filtered, white_turn, turn_IA, end_menu,
                      winner, piece_moved, list_colors_player, original_move_type,
                      game_state_type, final_sound, crashed, moved_piece>>]_vars

\* the first release of the game was rejected: a click is consumed, nothing
\* has moved and White is still to move
C14_Witness ==
    /\ clicks = 1
    /\ free = 0
    /\ ~crashed
    /\ white_turn
    /\ ~turn_IA
    /\ list_colors_player = <<None, None>>
    /\ GS = update_moves_first_turn(setup_initial_position)

\* a step in which move_piece was called: it returned and the turn passed,
\* or it raised
MovePieceCalled == Executed \/ (crashed' /\ ~crashed)

\* C15: checkmate and stalemate are terminal: once update_available_moves
\* has returned "checkmate" or "stalemate" (end_menu is set), no step of
\* the game loop calls move_piece any more, neither for the human nor for
\* the AI, whose block still runs in the pass of the loop in which the
\* human's move ended the game.
C15_MateIsTerminal == [][end_menu => ~MovePieceCalled]_vars

\* the human's move ended the game against the AI, and the AI block of the
\* same pass of the loop has run
C15_Witness ==
    /\ end_menu
    /\ IA
    /\ ~turn_IA
    /\ game_state_type \in {"checkmate", "stalemate"}
    /\ moved_piece # None
    /\ obj[moved_piece].color = player_color

\* the fool's mate: (6,5)->(5,5), (1,4)->(3,4), (6,6)->(4,6), (0,3)->(4,7)
FoolsMate == <<<<6, 5, 5, 5>>, <<1, 4, 3, 4>>, <<6, 6, 4, 6>>, <<0, 3, 4, 7>>>>

\* the first n clicks of the line have all been executed as moves
AllExecuted(n) ==
    /\ clicks = n
    /\ free = 0
    /\ ~crashed
    /\ white_turn = (n % 2 = 0)
    /\ list_colors_player = <<<<Lines[script][n][1], Lines[script][n][2]>>,
                              <<Lines[script][n][3], Lines[script][n][4]>>>>

\* C16: from the initial position the four moves of the fool's mate are all
\* available moves and are executed; update_available_moves returns "move"
\* after each of the first three and "checkmate" after the fourth, which
\* leaves every white piece without an available move.
C16_FoolsMate ==
    (Lines[script] = FoolsMate /\ clicks > 0 /\ free = 0) =>
        /\ AllExecuted(clicks)
        /\ clicks < 4 => game_state_type = "move"
        /\ clicks = 4 =>
              /\ game_state_type = "checkmate"
              /\ \A i \in 1..Len(registry[WHITE]) :
                    obj[registry[WHITE][i]].available_moves = <<>>

\* the queen has arrived on (4,7) and the game is over
C16_Witness ==
    /\ Lines[script] = FoolsMate
    /\ AllExecuted(4)
    /\ At(GS, <<4, 7>>) = 4
    /\ obj[4].kind = "Queen"
    /\ game_state_type = "checkmate"
    /\ Len(registry[WHITE]) = 16

\* what King.move_piece must leave in mv when the unmoved king p of S went
\* to column 6 (resp. 2) of its home row: the rook of the corner column
\* corner_col stands on rook_col
Castled(S, mv, p, to, corner_col, rook_col) ==
    /\ mv.tag = "castling"
    /\ S.board[to[1]][corner_col] # None
    /\ S.obj[S.board[to[1]][corner_col]].kind = "Rook"
    /\ S.obj[S.board[to[1]][corner_col]].color = S.obj[p].color
    /\ At(mv.st, <<to[1], rook_col>>) = S.board[to[1]][corner_col]
    /\ mv.st.obj[S.board[to[1]][corner_col]].tile = <<to[1], rook_col>>
    /\ ~mv.st.obj[S.board[to[1]][corner_col]].first_move
    /\ At(mv.st, <<to[1], corner_col>>) = None
    /\ At(mv.st, to) = p
    /\ mv.st.obj[p].tile = to
    /\ ~mv.st.obj[p].first_move

ExpectedTag(p, from, to) ==
    IF obj[p].kind = "King" /\ Abs(to[2] - from[2]) = 2
    THEN "castling"
    ELSE IF At(GS, to) # None THEN "capture" ELSE "move"

StandardRank ==
    <<"Rook", "Knight", "Bishop", "Queen", "King", "Bishop", "Knight", "Rook">>

\* the piece the standard placement puts on a cell, as <<kind, colour>>
Standard(r, c) ==
    CASE r = 0 -> <<StandardRank[c + 1], BLACK>>
      [] r = 1 -> <<"Pawn", BLACK>>
      [] r = 6 -> <<"Pawn", WHITE>>
      [] r = 7 -> <<StandardRank[c + 1], WHITE>>

\* the available moves of White, as pairs of a registry index and an index
\* in that piece's available_moves
WhiteMoves ==
    {ik \in (1..Len(registry[WHITE])) \X (1..28) :
        ik[2] <= Len(obj[registry[WHITE][ik[1]]].available_moves)}

\* C19: before the first ply there are exactly 32 pieces, 16 per registry,
\* in the standard placement (rows 0 and 1 black, rows 6 and 7 white, kings
\* on column 4, queens on column 3); every first_move is true and no
\* just_moved is; each king's rook_left and rook_right are the rooks on
\* columns 0 and 7 of its home row; and White has exactly 20 available
\* moves, 16 of pawns and 4 of knights.
C19_InitialPosition ==
    (clicks = 0 /\ free = 0) =>
        /\ Len(obj) = 32
        /\ \A color \in {WHITE, BLACK} :
              /\ Len(registry[color]) = 16
              /\ Cardinality(Members(GS, color)) = 16
              /\ At(GS, <<HomeRow(color), 4>>) = get_king(color)
              /\ At(GS, <<HomeRow(color), 0>>) = rook_left(color)
              /\ At(GS, <<HomeRow(color), 7>>) = rook_right(color)
        /\ \A r \in 0..7, c \in 0..7 :
              IF r \in {0, 1, 6, 7}
              THEN /\ board[r][c] # None
                   /\ <<obj[board[r][c]].kind, obj[board[r][c]].color>> = Standard(r, c)
                   /\ obj[board[r][c]].tile = <<r, c>>
                   /\ obj[board[r][c]].first_move
                   /\ ~obj[board[r][c]].just_moved
                   /\ Contains(registry[obj[board[r][c]].color], board[r][c])
              ELSE board[r][c] = None
        /\ Cardinality(WhiteMoves) = 20
        /\ Cardinality({ik \in WhiteMoves : obj[registry[WHITE][ik[1]]].kind = "Pawn"}) = 16
        /\ Cardinality({ik \in WhiteMoves : obj[registry[WHITE][ik[1]]].kind = "Knight"}) = 4

\* the game has just started: White is to move and the pawn of (6,4) may
\* advance to (5,4) or (4,4)
C19_Witness ==
    /\ clicks = 0
    /\ free = 0
    /\ white_turn
    /\ game_state_type = "none"
    /\ obj[At(GS, <<6, 4>>)].available_moves = <<<<5, 4>>, <<4, 4>>>>

\* the number of occurrences of piece p in the registry of its colour
Occurrences(S, p) ==
    Cardinality({i \in 1..Len(S.registry[S.obj[p].color]) :
                    S.registry[S.obj[p].color][i] = p})

\* C20: in every state, add_piece of a registered piece, remove_piece of an
\* unregistered piece, and either call with None return the state unchanged
\* (both registries included); and after add_piece twice the piece occurs
\* exactly once in the registry of its colour.
C20_RegistryIdempotent ==
    /\ add_piece(GS, None) = GS
    /\ remove_piece(GS, None) = GS
    /\ \A p \in 1..Len(obj) :
          /\ Contains(registry[obj[p].color], p) => add_piece(GS, p) = GS
          /\ ~Contains(registry[obj[p].color], p) => remove_piece(GS, p) = GS
          /\ Occurrences(add_piece(add_piece(GS, p), p), p) = 1
          /\ add_piece(add_piece(GS, p), p) = add_piece(GS, p)
          /\ remove_piece(remove_piece(GS, p), p) = remove_piece(GS, p)

\* a capture has just been executed: the captured piece is out of its
\* registry while others are still registered
C20_Witness ==
    /\ original_move_type = "capture"
    /\ \E p \in 1..Len(obj) : ~Contains(registry[obj[p].color], p)
    /\ \E p \in 1..Len(obj) : Contains(registry[obj[p].color], p)

\* the position a new game starts from
NewGame == update_moves_first_turn(setup_initial_position)

\* C21: replaying a finished game keeps its settings: the step that leaves
\* the end screen keeps IA, player_color, the AI's colour and board_flipped,
\* and puts the board, the pieces and the registries back to the initial
\* position with White to move and no highlighted tiles.
C21_ReplayKeepsSettings ==
    [][Replayed =>
          /\ IA' = IA
          /\ player_color' = player_color
          /\ ai_color' = ai_color
          /\ board_flipped' = board_flipped
          /\ board' = NewGame.board
          /\ obj' = NewGame.obj
          /\ registry' = NewGame.registry
          /\ white_turn'
          /\ list_colors_player' = <<None, None>>]_vars

\* the registered pieces of a colour whose pseudo-legal move set, computed
\* on the board of S, contains the tile
Attackers(S, color, tile) ==
    {p \in Members(S, color) : Contains(PossibleMoves(S, p), tile)}

\* the enemy pieces that attack the defender's king in the current position
Checkers == Attackers(GS, -Defender, obj[get_king(Defender)].tile)

\* C22: in a double check only the king may move: whenever two or more
\* enemy pieces attack the defender's king in the position after a move,
\* every defender piece other than the king has an empty available_moves.
C22_DoubleCheck ==
    (game_state_type # "none" /\ ~crashed /\ Cardinality(Checkers) >= 2) =>
        \A p \in Members(GS, Defender) :
            p # get_king(Defender) => obj[p].available_moves = <<>>

\* a double check in which a defender piece could pseudo-legally capture
\* one of the two checkers, and the king has a move
C22_Witness ==
    /\ game_state_type = "check"
    /\ ~crashed
    /\ Cardinality(Checkers) >= 2
    /\ obj[get_king(Defender)].available_moves # <<>>
    /\ \E p \in Members(GS, Defender) :
          /\ p # get_king(Defender)
          /\ \E c \in Checkers : Contains(PossibleMoves(GS, p), obj[c].tile)

\* C23: capturing the checker is not sufficient on its own: when the
\* defender's king is attacked after a move, an available move of a
\* non-king defender piece onto the tile of a checking piece leaves the
\* defender's king unattacked once executed.
C23_CaptureCheckerKingSafe ==
    (game_state_type # "none" /\ ~crashed) =>
        \A c \in Checkers :
            \A p \in Members(GS, Defender) :
                (p # get_king(Defender) /\ Contains(obj[p].available_moves, obj[c].tile))
                    => KingSafeAfter(GS, p, obj[c].tile)

\* the last executed half-move was the two-square advance of pawn p
JustAdvanced(p) ==
    /\ moved_piece = p
    /\ list_colors_player[2] = obj[p].tile
    /\ list_colors_player[1][2] = list_colors_player[2][2]
    /\ Abs(list_colors_player[2][1] - list_colors_player[1][1]) = 2

\* the registered pawns whose just_moved flag is set
FlaggedPawns ==
    {p \in Members(GS, WHITE) \cup Members(GS, BLACK) :
        obj[p].kind = "Pawn" /\ obj[p].just_moved}

\* C24: between plies a pawn's just_moved flag is set only if that pawn's
\* two-square advance was the most recently executed half-move, so at most
\* one pawn has the flag set.
C24_JustMovedOnePly ==
    ~crashed =>
        /\ \A p \in FlaggedPawns : JustAdvanced(p)
        /\ Cardinality(FlaggedPawns) <= 1

\* the cell beside pawn p on column col holds an enemy pawn whose
\* just_moved flag is set
EnemyPawnFlaggedBeside(p, col) ==
    /\ board[obj[p].tile[1]][col] # None
    /\ obj[board[obj[p].tile[1]][col]].kind = "Pawn"
    /\ obj[board[obj[p].tile[1]][col]].color = -obj[p].color
    /\ obj[board[obj[p].tile[1]][col]].just_moved

\* C25: en passant targets enemy pawns only: for every pawn on the board
\* and each neighbouring column, _check_en_passant adds the diagonal
\* destination only when the cell beside the pawn holds a pawn of the
\* opposite colour with just_moved set.
C25_EnPassantEnemyOnly ==
    ~crashed =>
        \A p \in Members(GS, WHITE) \cup Members(GS, BLACK) :
            obj[p].kind = "Pawn" =>
                \A col \in {obj[p].tile[2] - 1, obj[p].tile[2] + 1} :
                    en_passant_side(GS, p, col) # <<>>
                        => EnemyPawnFlaggedBeside(p, col)

\* what Pawn.move_piece must leave in T when pawn p of S went diagonally
\* from `from` onto the empty tile `to`: the enemy pawn that stood behind
\* `to` is gone, p stands on `to`, and nothing else has changed
EnPassantExecuted(S, T, p, from, to) ==
    /\ At(S, <<from[1], to[2]>>) # None
    /\ S.obj[At(S, <<from[1], to[2]>>)].kind = "Pawn"
    /\ S.obj[At(S, <<from[1], to[2]>>)].color = -S.obj[p].color
    /\ Gone(T, At(S, <<from[1], to[2]>>))
    /\ At(T, <<from[1], to[2]>>) = None
    /\ At(T, to) = p
    /\ T.obj[p].tile = to
    /\ At(T, from) = None
    /\ \A r \in 0..7, c \in 0..7 :
          <<r, c>> \notin {from, to, <<from[1], to[2]>>} => T.board[r][c] = S.board[r][c]
    /\ \A color \in {WHITE, BLACK} :
          Members(T, color) = Members(S, color) \ {At(S, <<from[1], to[2]>>)}
    /\ \A q \in 1..Len(S.obj) : q # p => T.obj[q].tile = S.obj[q].tile

\* the move of piece p from `from` to `to` is a pawn's diagonal step onto an
\* empty tile short of the last rank
EnPassantMove(p, from, to) ==
    /\ obj[p].kind = "Pawn"
    /\ to[2] # from[2]
    /\ At(GS, to) = None
    /\ to[1] \notin {0, 7}

\* C26: whenever move_piece takes a pawn diagonally onto an empty
\* destination, the enemy pawn on the cell behind the destination is
\* removed from its registry and its cell emptied, the mover ends on the
\* destination, and no other piece is removed or relocated.
C26_EnPassantExecution ==
    Playing => AfterEveryMove(LAMBDA p, from, to, mv :
                   EnPassantMove(p, from, to) =>
                       /\ mv.tag # "AttributeError"
                       /\ EnPassantExecuted(GS, mv.st, p, from, to))

\* enemy piece s pins defender piece p: s is a rook, bishop or queen that
\* attacks p's tile and would attack the defender's king with p off the
\* board
Pins(s, p) ==
    /\ obj[s].kind \in {"Rook", "Bishop", "Queen"}
    /\ Contains(PossibleMoves(GS, s), obj[p].tile)
    /\ Contains(PossibleMoves(SetAt(GS, obj[p].tile, None), s),
                obj[get_king(Defender)].tile)

\* C27: a pinned piece may capture its pinner: when the defender's king is
\* not attacked after a move, a non-king defender piece pinned by an enemy
\* slider keeps the slider's tile among its available_moves whenever that
\* capture is pseudo-legal and leaves the defender's king unattacked.
C27_PinnedMayCapturePinner ==
    (game_state_type # "none" /\ ~crashed /\ ~DefenderAttacked) =>
        \A p \in Members(GS, Defender) :
            \A s \in Members(GS, -Defender) :
                ( /\ p # get_king(Defender)
                  /\ Pins(s, p)
                  /\ Contains(PossibleMoves(GS, p), obj[s].tile)
                  /\ KingSafeAfter(GS, p, obj[s].tile) )
                    => Contains(obj[p].available_moves, obj[s].tile)

Sgn(x) == IF x > 0 THEN 1 ELSE IF x < 0 THEN -1 ELSE 0

\* tile t lies strictly between tiles a and b on a row, column or diagonal
Between(t, a, b) ==
    /\ \/ a[1] = b[1]
       \/ a[2] = b[2]
       \/ Abs(a[1] - b[1]) = Abs(a[2] - b[2])
    /\ \E k \in 1..6 :
          /\ k < Abs(a[1] - b[1]) \/ k < Abs(a[2] - b[2])
          /\ t = <<a[1] + k * Sgn(b[1] - a[1]), a[2] + k * Sgn(b[2] - a[2])>>

\* C28: a single check is not mistaken for a double check: when exactly one
\* enemy piece attacks the defender's king after a move, every pseudo-legal
\* move of a non-king defender piece that captures the checker or
\* interposes between checker and king, and leaves the king unattacked, is
\* among the piece's available_moves.
C28_SingleCheckAnswers ==
    (game_state_type # "none" /\ ~crashed /\ Cardinality(Checkers) = 1) =>
        \A c \in Checkers :
            \A p \in Members(GS, Defender) \ {get_king(Defender)} :
                \A k \in 1..Len(PossibleMoves(GS, p)) :
                    ( /\ \/ PossibleMoves(GS, p)[k] = obj[c].tile
                         \/ Between(PossibleMoves(GS, p)[k], obj[c].tile,
                                    obj[get_king(Defender)].tile)
                      /\ KingSafeAfter(GS, p, PossibleMoves(GS, p)[k]) )
                        => Contains(obj[p].available_moves, PossibleMoves(GS, p)[k])

\* C29: the turns alternate: every executed move is of a piece of the side
\* to move, which is White in a new game and changes with every executed
\* move; and against the AI the human part of the loop only moves pieces
\* of player_color and the AI block only pieces of the AI's colour.
C29_TurnAlternation ==
    [][Executed =>
          /\ obj'[moved_piece'].color = Turn
          /\ IA => obj'[moved_piece'].color = (IF turn_IA THEN ai_color ELSE player_color)]_vars

\* C30: the winner is the side that moved: in a step that executes a move,
\* when update_available_moves returns "checkmate" winner becomes the
\* colour of the side that was to move and end_menu becomes true, when it
\* returns "stalemate" winner becomes 0 and end_menu true, and when it
\* returns "move" or "check" winner and end_menu stay as they are.
C30_WinnerAttribution ==
    [][Executed =>
          /\ game_state_type' = "checkmate" => (winner' = Turn /\ end_menu')
          /\ game_state_type' = "stalemate" => (winner' = 0 /\ end_menu')
          /\ game_state_type' \in {"move", "check"} => UNCHANGED <<winner, end_menu>>]_vars

\* White has just mated: the end screen is up and White is the winner
C30_Witness ==
    /\ game_state_type = "checkmate"
    /\ end_menu
    /\ winner = WHITE
    /\ ~white_turn
    /\ obj[moved_piece].color = WHITE

\* the tags move_piece and update_available_moves return
MoveKinds == {"move", "capture", "castling"}

GameStates == {"move", "check", "checkmate", "stalemate"}

\* C31: the combined outcome: for every move-kind tag and game-state tag,
\* _determine_final_sound returns the game-state tag when it is
\* "checkmate" or "stalemate", "check" when it is "check", and the
\* move-kind tag otherwise; and that is the tag the loop passed to
\* play_music for the last executed move.
C31_CombinedOutcome ==
    /\ \A kind \in MoveKinds :
          /\ determine_final_sound(kind, "checkmate") = "checkmate"
          /\ determine_final_sound(kind, "stalemate") = "stalemate"
          /\ determine_final_sound(kind, "check") = "check"
          /\ determine_final_sound(kind, "move") = kind
    /\ (game_state_type # "none" /\ ~crashed) =>
          /\ original_move_type \in MoveKinds
          /\ game_state_type \in GameStates
          /\ game_state_type \in {"checkmate", "stalemate", "check"}
                => final_sound = game_state_type
          /\ game_state_type = "move" => final_sound = original_move_type

\* a capture that gives check has been played: the combined tag is "check"
C31_Witness ==
    /\ original_move_type = "capture"
    /\ game_state_type = "check"
    /\ final_sound = "check"
    /\ ~crashed

\* the tiles reached by walking from <<row, col>> in direction
\* <<row_dir, col_dir>> one step at a time: an empty tile is reached and the
\* walk goes on, a tile of the other colour is reached and ends the walk,
\* the edge of the board or a tile of the walker's colour ends it
RECURSIVE Walk(_, _, _, _, _, _)
Walk(S, row, col, row_dir, col_dir, color) ==
    IF ~InBounds(row + row_dir, col + col_dir) THEN {}
    ELSE IF S.board[row + row_dir][col + col_dir] = None
    THEN {<<row + row_dir, col + col_dir>>}
         \cup Walk(S, row + row_dir, col + col_dir, row_dir, col_dir, color)
    ELSE IF S.obj[S.board[row + row_dir][col + col_dir]].color = -color
    THEN {<<row + row_dir, col + col_dir>>}
    ELSE {}

\* the directions a kind of slider walks: along rows and columns, along
\* diagonals, or both
WalkDirections(kind) ==
    {d \in {-1, 0, 1} \X {-1, 0, 1} :
        /\ d # <<0, 0>>
        /\ kind = "Rook" => (d[1] = 0 \/ d[2] = 0)
        /\ kind = "Bishop" => (d[1] # 0 /\ d[2] # 0)}

\* the rooks, bishops and queens in the registries
Sliders ==
    {p \in Members(GS, WHITE) \cup Members(GS, BLACK) :
        obj[p].kind \in {"Rook", "Bishop", "Queen"}}

\* the elements of a list
Elements(s) == {s[i] : i \in 1..Len(s)}

\* C32: sliding geometry: for every rook, bishop and queen on every reached
\* board, get_linear_moves returns, each once, exactly the tiles reached by
\* walking each direction of its kind from its tile, where a walk passes
\* empty tiles only, stops on the first occupied tile and keeps it only
\* when it holds a piece of the other colour.
C32_SlidingGeometry ==
    \A p \in Sliders :
        /\ Elements(get_linear_moves(GS, obj[p].tile, obj[p].color, Directions(obj[p].kind)))
              = UNION {Walk(GS, obj[p].tile[1], obj[p].tile[2], d[1], d[2], obj[p].color) :
                          d \in WalkDirections(obj[p].kind)}
        /\ Cardinality(Elements(get_linear_moves(GS, obj[p].tile, obj[p].color,
                                                 Directions(obj[p].kind))))
              = Len(get_linear_moves(GS, obj[p].tile, obj[p].color, Directions(obj[p].kind)))

\* a queen in the open: it reaches an enemy piece, is blocked by a piece of
\* its own colour next to it, and has more than seven destinations
C32_Witness ==
    \E p \in Sliders :
        /\ obj[p].kind = "Queen"
        /\ At(GS, obj[p].tile) = p
        /\ Len(PossibleMoves(GS, p)) > 7
        /\ \E k \in 1..Len(PossibleMoves(GS, p)) : At(GS, PossibleMoves(GS, p)[k]) # None
        /\ \E d \in WalkDirections("Queen") :
              /\ InBounds(obj[p].tile[1] + d[1], obj[p].tile[2] + d[2])
              /\ board[obj[p].tile[1] + d[1]][obj[p].tile[2] + d[2]] # None
              /\ obj[board[obj[p].tile[1] + d[1]][obj[p].tile[2] + d[2]]].color = obj[p].color

\* the pawns in the registries
Pawns ==
    {p \in Members(GS, WHITE) \cup Members(GS, BLACK) : obj[p].kind = "Pawn"}

\* the row a pawn of a colour reaches with n steps forward from row r:
\* White pawns advance toward row 0, Black pawns toward row 7
Forward(color, r, n) == IF color = WHITE THEN r - n ELSE r + n

\* move m of pawn p is a single advance onto an empty tile
SinglePush(p, m) ==
    /\ m = <<Forward(obj[p].color, obj[p].tile[1], 1), obj[p].tile[2]>>
    /\ At(GS, m) = None

\* move m of pawn p is a double advance of a pawn that has not moved, over
\* an empty tile onto an empty tile
DoublePush(p, m) ==
    /\ m = <<Forward(obj[p].color, obj[p].tile[1], 2), obj[p].tile[2]>>
    /\ obj[p].first_move
    /\ At(GS, m) = None
    /\ At(GS, <<Forward(obj[p].color, obj[p].tile[1], 1), obj[p].tile[2]>>) = None

\* move m of pawn p is a step onto a forward-diagonal tile that holds an
\* enemy piece or is an en-passant destination
DiagonalStep(p, m) ==
    /\ m[1] = Forward(obj[p].color, obj[p].tile[1], 1)
    /\ Abs(m[2] - obj[p].tile[2]) = 1
    /\ \/ At(GS, m) # None /\ obj[At(GS, m)].color = -obj[p].color
       \/ Contains(check_en_passant(GS, p), m)

\* C33: pawn push geometry: every pseudo-legal move of a pawn is the single
\* forward tile, which is empty, or the double forward tile, with first_move
\* true and both forward tiles empty, or a forward-diagonal tile that holds
\* an enemy piece or is an en-passant destination; forward is toward row 0
\* for White and toward row 7 for Black.
C33_PawnPushGeometry ==
    \A p \in Pawns :
        \A k \in 1..Len(PawnMoves(GS, p)) :
            \/ SinglePush(p, PawnMoves(GS, p)[k])
            \/ DoublePush(p, PawnMoves(GS, p)[k])
            \/ DiagonalStep(p, PawnMoves(GS, p)[k])

\* a pawn that has not moved stands behind an occupied tile with the tile
\* two steps ahead empty, and another pawn that has moved can advance or
\* capture
C33_Witness ==
    /\ \E p \in Pawns :
          /\ obj[p].first_move
          /\ At(GS, obj[p].tile) = p
          /\ At(GS, <<Forward(obj[p].color, obj[p].tile[1], 1), obj[p].tile[2]>>) # None
          /\ At(GS, <<Forward(obj[p].color, obj[p].tile[1], 2), obj[p].tile[2]>>) = None
    /\ \E p \in Pawns :
          /\ ~obj[p].first_move
          /\ At(GS, obj[p].tile) = p
          /\ \E k \in 1..Len(PawnMoves(GS, p)) : SinglePush(p, PawnMoves(GS, p)[k])
          /\ \E k \in 1..Len(PawnMoves(GS, p)) : At(GS, PawnMoves(GS, p)[k]) # None

\* C34: the registry order is stable within one classification pass: in
\* every step that executes a move, each colour's registry is after
\* update_available_moves the same list, in the same order, that
\* move_piece left.
C34_RegistryOrderStable ==
    [][Executed => registry' = MoveResult.st.registry]_vars

C36_MaterialConservation ==
    Playing => AfterEveryMove(LAMBDA p, from, to, mv :
                   mv.tag # "AttributeError" =>
                       /\ Len(mv.st.registry[obj[p].color]) = Len(registry[obj[p].color])
                       /\ Members(GS, obj[p].color) \ Members(mv.st, obj[p].color) \subseteq
                              (IF obj[p].kind = "Pawn" /\ to[1] \in {0, 7} THEN {p} ELSE {})
                       /\ Len(mv.st.registry[-obj[p].color])
                              >= Len(registry[-obj[p].color]) - 1)

\* C37: every registered piece is on the board: between plies each piece
\* of a registry stands on the cell its tile names, no two registered
\* pieces have the same tile, and a piece that is on no cell (captured or
\* promoted away) is in no registry.
C37_RegisteredOnBoard ==
    ~crashed =>
        /\ \A p \in Members(GS, WHITE) \cup Members(GS, BLACK) :
              At(GS, obj[p].tile) = p
        /\ \A p, q \in Members(GS, WHITE) \cup Members(GS, BLACK) :
              p # q => obj[p].tile # obj[q].tile
        /\ \A p \in 1..Len(obj) :
              (\A r \in 0..7, c \in 0..7 : board[r][c] # p)
                  => p \notin Members(GS, WHITE) \cup Members(GS, BLACK)

====
